---- MODULE Spec2Model ----
(***************************************************************************)
(* Scheduling engine of the dental-practice backend:                       *)
(*   services/appointment_service.py  (AppointmentService)                 *)
(*   models/appointment.py            (Appointment, AppointmentStatus)     *)
(* Time is counted in steps of 30 minutes (the stride of the slot          *)
(* generator); a duration of 2 is a 60-minute appointment and the 24-hour  *)
(* cancellation window is 48 steps.                                        *)
(***************************************************************************)
EXTENDS Integers, Sequences, FiniteSets, TLC

VARIABLES
    appointments,   \* AppointmentService.appointments: id -> Appointment
    disk,           \* content of data/appointments.json
    now,            \* datetime.now()
    fs,             \* what the file system does to the next save
    ncalls,         \* number of service calls made so far
    last,           \* the last completed service call: its arguments and result
    calls,          \* create_appointment calls in flight (one per request thread)
    response,       \* the last answer of an HTTP endpoint of api/appointment_api.py
    patients,       \* PatientService.patients: id -> Patient
    patient_file,   \* content of data/patients.json
    heard,          \* the last utterance given to VoiceProcessor and its result
    query,          \* the last call of VoiceProcessor.process_voice_query
    listener,       \* continuous listening: is_listening, the two threads, the callback
    notifications,      \* NotificationService.notifications: id -> Notification
    notification_file,  \* content of data/notifications.json
    invoices,           \* BillingService.invoices: id -> Invoice
    invoice_file        \* content of data/billing.json

\* the state outside the scheduling engine
aux == <<response, patients, patient_file, heard, query, listener, notifications,
         notification_file, invoices, invoice_file>>

vars == <<appointments, disk, now, fs, ncalls, last, calls, aux>>

-----------------------------------------------------------------------------
(* Bounds of the model *)

MaxCalls == 3
MaxBookCalls == 3
MaxScanCalls == 3
MaxNow == 1
MaxSlotCalls == 3
MaxIOCalls == 2
MaxQueryCalls == 3
MaxQueryNow == 3
MaxHttpCalls == 2
MaxPatientCalls == 4
MaxPhrases == 2
MaxListenQueries == 4
MaxLifecycleCalls == 4
MaxNotifyCalls == 5
MaxNotifications == 2
MaxBillingCalls == 4

(* Program constants, in 30-minute steps *)

CancelWindow == 48
DefaultDuration == 2
OpeningHour == 9
ClosingHour == 17
SlotStrideMinutes == 30
MaxRetries == 3
RetryDelayMinutes == 30

-----------------------------------------------------------------------------
(* Values *)

None == "None"

SCHEDULED == "scheduled"
CONFIRMED == "confirmed"
IN_PROGRESS == "in_progress"
COMPLETED == "completed"
CANCELLED == "cancelled"
NO_SHOW == "no_show"

AppointmentStatus == {SCHEDULED, CONFIRMED, IN_PROGRESS, COMPLETED, CANCELLED, NO_SHOW}

\* Inputs the callers draw from
PatientIds == {"P0001"}
AppointmentTypes == {"cleaning"}
DentistIds == {None, "D1", "D2"}
StartTimes == {47, 48, 49}
Durations == {1, DefaultDuration}
Reasons == {"", "moved"}
NoteTexts == {"filled"}
Callers == {"t1", "t2"}
MissingId == "A9999"

\* Python truth value of an Optional[str]
Truthy(s) == s # None /\ s # ""

-----------------------------------------------------------------------------
(* f"A{n:04d}" *)

Digits == <<"0", "1", "2", "3", "4", "5", "6", "7", "8", "9">>

RECURSIVE Decimal(_)
Decimal(n) == IF n < 10 THEN Digits[n + 1]
              ELSE Decimal(n \div 10) \o Digits[(n % 10) + 1]

RECURSIVE ZeroPad(_, _)
ZeroPad(s, width) == IF Len(s) >= width THEN s ELSE ZeroPad("0" \o s, width)

\* an id padded to three digits
FormatIdShort(n) == "A" \o ZeroPad(Decimal(n), 3)

FormatId(n) == "A" \o ZeroPad(Decimal(n), 4)

-----------------------------------------------------------------------------
(* datetime.isoformat / datetime.fromisoformat: a point in time, counted in    *)
(* 30-minute steps, is written as its day, hour and minute                    *)

MinutesPerStep == SlotStrideMinutes
StepsPerHour == 60 \div MinutesPerStep
StepsPerDay == 24 * StepsPerHour

\* date.date(): the day a point in time falls on
Day(t) == t \div StepsPerDay

\* datetime.combine(date.date(), datetime.min.time().replace(hour=h))
AtHour(date, h) == Day(date) * StepsPerDay + h * StepsPerHour

\* an isoformat that writes the hour only
IsoFormatHourOnly(t) ==
    <<t \div StepsPerDay, (t % StepsPerDay) \div StepsPerHour, 0>>

\* datetime.isoformat
IsoFormat(t) ==
    <<t \div StepsPerDay, (t % StepsPerDay) \div StepsPerHour,
      (t % StepsPerHour) * MinutesPerStep>>

\* datetime.fromisoformat
FromIsoFormat(iso) ==
    iso[1] * StepsPerDay + iso[2] * StepsPerHour + iso[3] \div MinutesPerStep

-----------------------------------------------------------------------------
(* models/appointment.py *)

\* a constructor that starts the appointment as confirmed
NewAppointmentConfirmed(aid, pid, atype, sd, dur, dent, notes, t) ==
    [appointment_id   |-> aid,
     patient_id       |-> pid,
     appointment_type |-> atype,
     scheduled_date   |-> sd,
     duration_minutes |-> dur,
     dentist_id       |-> dent,
     notes            |-> notes,
     status           |-> CONFIRMED,
     created_at       |-> t,
     updated_at       |-> t,
     reminders_sent   |-> <<>>,
     treatment_notes  |-> <<>>]

\* Appointment.__init__
NewAppointment(aid, pid, atype, sd, dur, dent, notes, t) ==
    [appointment_id   |-> aid,
     patient_id       |-> pid,
     appointment_type |-> atype,
     scheduled_date   |-> sd,
     duration_minutes |-> dur,
     dentist_id       |-> dent,
     notes            |-> notes,
     status           |-> SCHEDULED,
     created_at       |-> t,
     updated_at       |-> t,
     reminders_sent   |-> <<>>,
     treatment_notes  |-> <<>>]

\* Appointment.update_status
UpdateStatus(a, new_status, t) ==
    [a EXCEPT !.status = new_status, !.updated_at = t]

\* Appointment.add_treatment_note
AddNote(a, note, dent, t) ==
    [a EXCEPT !.treatment_notes =
                  Append(@, [note |-> note, dentist_id |-> dent,
                             timestamp |-> IsoFormat(t)]),
              !.updated_at = t]

\* a reschedule that also puts the appointment back to scheduled
MoveToAndReopen(a, new_date, t) ==
    [a EXCEPT !.scheduled_date = new_date, !.updated_at = t, !.status = SCHEDULED]

\* the two assignments of reschedule_appointment
MoveTo(a, new_date, t) == [a EXCEPT !.scheduled_date = new_date, !.updated_at = t]

\* Appointment.to_dict: the enum members are written as their values, the
\* datetimes in isoformat
ToDict(a) ==
    [appointment_id   |-> a.appointment_id,
     patient_id       |-> a.patient_id,
     appointment_type |-> a.appointment_type,
     scheduled_date   |-> IsoFormat(a.scheduled_date),
     duration_minutes |-> a.duration_minutes,
     dentist_id       |-> a.dentist_id,
     notes            |-> a.notes,
     status           |-> a.status,
     created_at       |-> IsoFormat(a.created_at),
     updated_at       |-> IsoFormat(a.updated_at),
     reminders_sent   |-> a.reminders_sent,
     treatment_notes  |-> a.treatment_notes]

\* Appointment.get_end_time
GetEndTime(a) == a.scheduled_date + a.duration_minutes

\* can_be_cancelled with the 24-hour boundary let through
CanBeCancelledInclusive(a, t) == a.scheduled_date >= t + CancelWindow

\* Appointment.can_be_cancelled
CanBeCancelled(a, t) == a.scheduled_date > t + CancelWindow

-----------------------------------------------------------------------------
(* services/appointment_service.py *)

\* AppointmentService._has_conflict: the loop over self.appointments.values(),
\* `ids` being the appointments not visited yet
RECURSIVE ScanConflict(_, _, _, _, _)
ScanConflict(store, ids, scheduled_date, end_time, dentist_id) ==
    IF ids = {} THEN FALSE
    ELSE LET aid == CHOOSE x \in ids : TRUE
             appointment == store[aid]
             rest == ScanConflict(store, ids \ {aid}, scheduled_date, end_time,
                                  dentist_id)
         IN IF appointment.status \in {CANCELLED, NO_SHOW} THEN rest
            ELSE IF Truthy(dentist_id) /\ Truthy(appointment.dentist_id)
                      /\ appointment.dentist_id # dentist_id THEN rest
            ELSE IF scheduled_date < GetEndTime(appointment)
                      /\ end_time > appointment.scheduled_date THEN TRUE
            ELSE rest

\* a conflict check in which a missing dentist exempts the pair
HasConflictSameDentistOnly(store, scheduled_date, duration_minutes, dentist_id) ==
    \E aid \in DOMAIN store :
        /\ store[aid].status \notin {CANCELLED, NO_SHOW}
        /\ store[aid].dentist_id = dentist_id
        /\ scheduled_date < GetEndTime(store[aid])
        /\ scheduled_date + duration_minutes > store[aid].scheduled_date

\* a conflict check that skips cancelled appointments only
HasConflictNoShowBlocks(store, scheduled_date, duration_minutes, dentist_id) ==
    \E aid \in DOMAIN store :
        /\ store[aid].status # CANCELLED
        /\ ~(Truthy(dentist_id) /\ Truthy(store[aid].dentist_id)
               /\ store[aid].dentist_id # dentist_id)
        /\ scheduled_date < GetEndTime(store[aid])
        /\ scheduled_date + duration_minutes > store[aid].scheduled_date

\* a conflict check on closed intervals: back-to-back appointments collide
HasConflictClosed(store, scheduled_date, duration_minutes, dentist_id) ==
    \E aid \in DOMAIN store :
        /\ store[aid].status \notin {CANCELLED, NO_SHOW}
        /\ ~(Truthy(dentist_id) /\ Truthy(store[aid].dentist_id)
               /\ store[aid].dentist_id # dentist_id)
        /\ scheduled_date <= GetEndTime(store[aid])
        /\ scheduled_date + duration_minutes >= store[aid].scheduled_date

HasConflict(store, scheduled_date, duration_minutes, dentist_id) ==
    ScanConflict(store, DOMAIN store, scheduled_date,
                 scheduled_date + duration_minutes, dentist_id)

\* AppointmentService.get_available_slots: the while loop, `current_time` being
\* the candidate under test and `slots` the list built so far
RECURSIVE SlotLoop(_, _, _, _, _, _)
SlotLoop(store, current_time, end_time, duration_minutes, dentist_id, slots) ==
    IF current_time + duration_minutes <= end_time
    THEN SlotLoop(store, current_time + SlotStrideMinutes \div MinutesPerStep,
                  end_time, duration_minutes, dentist_id,
                  IF ~HasConflict(store, current_time, duration_minutes, dentist_id)
                  THEN Append(slots, current_time) ELSE slots)
    ELSE slots

\* a slot generator whose window closes an hour later
GetAvailableSlotsLateClose(store, date, duration_minutes, dentist_id) ==
    SlotLoop(store, AtHour(date, OpeningHour), AtHour(date, ClosingHour + 1),
             duration_minutes, dentist_id, << >>)

\* a slot generator that does not look at the stored appointments
GetAvailableSlotsUnfiltered(store, date, duration_minutes, dentist_id) ==
    SlotLoop(<< >>, AtHour(date, OpeningHour), AtHour(date, ClosingHour),
             duration_minutes, dentist_id, << >>)

\* AppointmentService.get_available_slots
GetAvailableSlots(store, date, duration_minutes, dentist_id) ==
    SlotLoop(store, AtHour(date, OpeningHour), AtHour(date, ClosingHour),
             duration_minutes, dentist_id, << >>)

\* self.appointments.values(): the stored appointments in insertion order, which
\* is the order of their ids
Values(store) == [k \in 1 .. Cardinality(DOMAIN store) |-> store[FormatId(k)]]

\* the ids of a list of appointments
Ids(apps) == [k \in DOMAIN apps |-> apps[k].appointment_id]

\* an upcoming list that takes in an appointment starting this very moment
GetUpcomingAppointmentsFromNow(store, t, hours) ==
    LET future_time == t + hours * StepsPerHour
        Upcoming(app) == /\ app.status \in {SCHEDULED, CONFIRMED}
                         /\ app.scheduled_date >= t
                         /\ app.scheduled_date <= future_time
    IN Ids(SelectSeq(Values(store), Upcoming))

\* AppointmentService.get_upcoming_appointments, called at time t
GetUpcomingAppointments(store, t, hours) ==
    LET future_time == t + hours * StepsPerHour
        Upcoming(app) == /\ app.status \in {SCHEDULED, CONFIRMED}
                         /\ app.scheduled_date > t
                         /\ app.scheduled_date <= future_time
    IN Ids(SelectSeq(Values(store), Upcoming))

\* an overdue list that takes in an appointment starting this very moment
GetOverdueAppointmentsToNow(store, t) ==
    LET Overdue(app) == /\ app.status \in {SCHEDULED, CONFIRMED}
                        /\ app.scheduled_date <= t
    IN Ids(SelectSeq(Values(store), Overdue))

\* AppointmentService.get_overdue_appointments, called at time t
GetOverdueAppointments(store, t) ==
    LET Overdue(app) == /\ app.status \in {SCHEDULED, CONFIRMED}
                        /\ app.scheduled_date < t
    IN Ids(SelectSeq(Values(store), Overdue))

\* AppointmentService.get_appointment: whether the lookup returns an appointment
\* (self.appointments.get(id) is None exactly when the id is not a key)
Found(store, aid) == aid \in DOMAIN store

\* an assignment that replaces the whole store by the one entry
PutAlone(store, key, value) == [k \in {key} |-> value]

\* dict item assignment: self.appointments[key] = value
Put(store, key, value) ==
    [k \in DOMAIN store \cup {key} |-> IF k = key THEN value ELSE store[k]]

\* what the file system can do to a save: let it through, refuse to create the
\* data directory (os.makedirs raises, outside the try block), refuse to open the
\* file (swallowed, the file is as it was) or fail the write after the file was
\* opened for writing (swallowed, the file is left truncated)
FsOutcomes == {"ok", "makedirs_fails", "open_fails", "write_fails"}

\* AppointmentService._save_appointments: the content of the data file afterwards
SaveAppointments(store) ==
    CASE fs = "ok" -> [aid \in DOMAIN store |-> ToDict(store[aid])]
      [] fs = "write_fails" -> << >>
      [] OTHER -> disk

\* AppointmentService._create_appointment_from_dict
CreateAppointmentFromDict(data) ==
    [NewAppointment(data.appointment_id, data.patient_id, data.appointment_type,
                    FromIsoFormat(data.scheduled_date), data.duration_minutes,
                    data.dentist_id, data.notes, now)
        EXCEPT !.status = data.status,
               !.reminders_sent = data.reminders_sent,
               !.treatment_notes = data.treatment_notes,
               !.created_at = FromIsoFormat(data.created_at),
               !.updated_at = FromIsoFormat(data.updated_at)]

\* AppointmentService._load_appointments: every entry of the file, stored under
\* the id it carries
LoadAppointments(file) ==
    [aid \in {file[k].appointment_id : k \in DOMAIN file} |->
        CreateAppointmentFromDict(
            file[CHOOSE k \in DOMAIN file : file[k].appointment_id = aid])]

\* the record of a completed call: the arguments, the time and the value of the
\* return statement it reached; `save` tells what the save step met ("none" when
\* the call saved nothing) and `raised` whether an exception left the call
\* instead of the value
Call(op, aid, sd, dur, dent, st, result) ==
    [op |-> op, id |-> aid, scheduled_date |-> sd, duration_minutes |-> dur,
     dentist_id |-> dent, status |-> st, at |-> now, result |-> result,
     save |-> "none", raised |-> FALSE]

\* a call that went through _save_appointments before its return statement
Saved(call) == [call EXCEPT !.save = fs, !.raised = (fs = "makedirs_fails")]

\* a request thread that is not inside create_appointment
Idle == [pc |-> "idle", patient_id |-> None, appointment_type |-> None,
         scheduled_date |-> 0, duration_minutes |-> 0, dentist_id |-> None,
         notes |-> "", appointment_id |-> None, created_at |-> 0, result |-> None]

\* an answer of an endpoint, with the request it answers
Response(method, aid, body, code) ==
    [method |-> method, id |-> aid, body |-> body, code |-> code]

\* no request was answered yet
NoResponse == Response("none", None, << >>, 0)

\* no utterance was processed yet
NotHeard == [text |-> "", intent |-> None, entities |-> << >>]

\* no call of process_voice_query yet
NoQuery == [text |-> None, speech |-> None, result |-> << >>]

\* a processor as constructed: is_listening False, no listening thread
NotListening == [is_listening |-> FALSE, caller |-> "idle", thread |-> "none",
                 queries |-> 0, failed |-> FALSE, callbacks |-> 0]

Init ==
    /\ appointments = << >>
    /\ disk = << >>
    /\ now = 0
    /\ fs = "ok"
    /\ ncalls = 0
    /\ last = Call("init", None, 0, 0, None, None, None)
    /\ calls = [c \in Callers |-> Idle]
    /\ response = NoResponse
    /\ patients = << >>
    /\ patient_file = << >>
    /\ heard = NotHeard
    /\ query = NoQuery
    /\ listener = NotListening
    /\ notifications = << >>
    /\ notification_file = << >>
    /\ invoices = << >>
    /\ invoice_file = << >>

\* AppointmentService.create_appointment, run to completion
CreateAppointment(pid, atype, sd, dur, dent, notes) ==
    /\ IF HasConflict(appointments, sd, dur, dent)
       THEN /\ last' = Call("create", None, sd, dur, dent, None, None)
            /\ UNCHANGED <<appointments, disk>>
       ELSE LET appointment_id == FormatId(Cardinality(DOMAIN appointments) + 1)
                appointment == NewAppointment(appointment_id, pid, atype, sd, dur,
                                              dent, notes, now)
            IN /\ appointments' = Put(appointments, appointment_id, appointment)
               /\ disk' = SaveAppointments(appointments')
               /\ last' = Saved(Call("create", appointment_id, sd, dur, dent, None,
                               appointment_id))
    /\ ncalls' = ncalls + 1
    /\ UNCHANGED <<now, fs, calls, aux>>

\* AppointmentService.update_appointment_status
UpdateAppointmentStatus(aid, new_status) ==
    /\ IF Found(appointments, aid)
       THEN /\ appointments' = [appointments EXCEPT
                                   ![aid] = UpdateStatus(@, new_status, now)]
            /\ disk' = SaveAppointments(appointments')
            /\ last' = Saved(Call("update_status", aid, 0, 0, None, new_status, TRUE))
       ELSE /\ last' = Call("update_status", aid, 0, 0, None, new_status, FALSE)
            /\ UNCHANGED <<appointments, disk>>
    /\ ncalls' = ncalls + 1
    /\ UNCHANGED <<now, fs, calls, aux>>

\* the suffix cancel_appointment appends to the notes
CancelNote(reason) == IF reason # "" THEN "\nCancelled: " \o reason ELSE "\nCancelled"

\* AppointmentService.cancel_appointment
CancelAppointment(aid, reason) ==
    /\ IF Found(appointments, aid)
          /\ CanBeCancelled(appointments[aid], now)
       THEN /\ appointments' = [appointments EXCEPT
                                   ![aid] = [UpdateStatus(@, CANCELLED, now) EXCEPT
                                                !.notes = @ \o CancelNote(reason)]]
            /\ disk' = SaveAppointments(appointments')
            /\ last' = Saved(Call("cancel", aid, 0, 0, None, None, TRUE))
       ELSE /\ last' = Call("cancel", aid, 0, 0, None, None, FALSE)
            /\ UNCHANGED <<appointments, disk>>
    /\ ncalls' = ncalls + 1
    /\ UNCHANGED <<now, fs, calls, aux>>

\* AppointmentService.reschedule_appointment
RescheduleAppointment(aid, new_date) ==
    /\ IF ~Found(appointments, aid)
       THEN /\ last' = Call("reschedule", aid, new_date, 0, None, None, FALSE)
            /\ UNCHANGED <<appointments, disk>>
       ELSE IF HasConflict(appointments, new_date,
                           appointments[aid].duration_minutes,
                           appointments[aid].dentist_id)
       THEN /\ last' = Call("reschedule", aid, new_date, 0, None, None, FALSE)
            /\ UNCHANGED <<appointments, disk>>
       ELSE /\ appointments' = [appointments EXCEPT ![aid] = MoveTo(@, new_date, now)]
            /\ disk' = SaveAppointments(appointments')
            /\ last' = Saved(Call("reschedule", aid, new_date, 0, None, None, TRUE))
    /\ ncalls' = ncalls + 1
    /\ UNCHANGED <<now, fs, calls, aux>>

\* AppointmentService.add_treatment_note
AddTreatmentNote(aid, note, dent) ==
    /\ IF Found(appointments, aid)
       THEN /\ appointments' = [appointments EXCEPT ![aid] = AddNote(@, note, dent, now)]
            /\ disk' = SaveAppointments(appointments')
            /\ last' = Saved(Call("add_treatment_note", aid, 0, 0, dent, None, TRUE))
       ELSE /\ last' = Call("add_treatment_note", aid, 0, 0, dent, None, FALSE)
            /\ UNCHANGED <<appointments, disk>>
    /\ ncalls' = ncalls + 1
    /\ UNCHANGED <<now, fs, calls, aux>>

\* a call of AppointmentService.get_available_slots
AvailableSlots(date, dur, dent) ==
    /\ last' = Call("available_slots", None, date, dur, dent, None,
                    GetAvailableSlots(appointments, date, dur, dent))
    /\ ncalls' = ncalls + 1
    /\ UNCHANGED <<appointments, disk, now, fs, calls, aux>>

\* a call of AppointmentService.get_upcoming_appointments
UpcomingAppointments(hours) ==
    /\ last' = Call("upcoming", None, 0, 0, None, None,
                    GetUpcomingAppointments(appointments, now, hours))
                @@ [hours |-> hours]
    /\ ncalls' = ncalls + 1
    /\ UNCHANGED <<appointments, disk, now, fs, calls, aux>>

\* a call of AppointmentService.get_overdue_appointments
OverdueAppointments ==
    /\ last' = Call("overdue", None, 0, 0, None, None,
                    GetOverdueAppointments(appointments, now))
    /\ ncalls' = ncalls + 1
    /\ UNCHANGED <<appointments, disk, now, fs, calls, aux>>

\* the process is started again: AppointmentService.__init__ on the data file
Restart ==
    /\ appointments' = LoadAppointments(disk)
    /\ last' = Call("load", None, 0, 0, None, None, None)
    /\ UNCHANGED <<disk, now, fs, ncalls, calls, aux>>

\* the file system changes its mind about the next save
FsChange ==
    /\ \E outcome \in FsOutcomes \ {fs} : fs' = outcome
    /\ UNCHANGED <<appointments, disk, now, ncalls, last, calls, aux>>

\* the ids a caller may name: every stored one and one that is not stored
IdArgs == DOMAIN appointments \cup {MissingId}

\* the clock advances between calls
Tick ==
    /\ now < MaxNow
    /\ now' = now + 1
    /\ UNCHANGED <<appointments, disk, fs, ncalls, last, calls, aux>>

\* one call of the service, run to completion
ServiceCall ==
    \/ \E pid \in PatientIds, atype \in AppointmentTypes, sd \in StartTimes,
          dur \in Durations, dent \in DentistIds :
          CreateAppointment(pid, atype, sd, dur, dent, "")
    \/ \E aid \in IdArgs, st \in AppointmentStatus : UpdateAppointmentStatus(aid, st)
    \/ \E aid \in IdArgs, reason \in Reasons : CancelAppointment(aid, reason)
    \/ \E aid \in IdArgs, nd \in StartTimes : RescheduleAppointment(aid, nd)
    \/ \E aid \in IdArgs, note \in NoteTexts : AddTreatmentNote(aid, note, "D1")

Next ==
    \/ ncalls < MaxCalls /\ ServiceCall
    \/ Tick

Spec == Init /\ [][Next]_vars

\* only create_appointment and reschedule_appointment are called
BookingCall ==
    \/ \E pid \in PatientIds, atype \in AppointmentTypes, sd \in StartTimes,
          dur \in Durations, dent \in DentistIds :
          CreateAppointment(pid, atype, sd, dur, dent, "")
    \/ \E aid \in IdArgs, nd \in StartTimes : RescheduleAppointment(aid, nd)

NextBook ==
    \/ ncalls < MaxBookCalls /\ BookingCall
    \/ Tick

SpecBook == Init /\ [][NextBook]_vars

\* the calls that decide what the conflict scan reads: the intervals, the dentists
\* and the statuses of the stored appointments
StoreCall ==
    \/ \E pid \in PatientIds, atype \in AppointmentTypes, sd \in StartTimes,
          dur \in Durations, dent \in DentistIds :
          CreateAppointment(pid, atype, sd, dur, dent, "")
    \/ \E aid \in IdArgs, st \in AppointmentStatus : UpdateAppointmentStatus(aid, st)

NextScan == ncalls < MaxScanCalls /\ StoreCall

SpecScan == Init /\ [][NextScan]_vars

\* the four calls that change which appointments are active and when, on one
\* dentist's calendar
LifecycleCall ==
    \/ \E sd \in StartTimes, dur \in Durations :
          CreateAppointment("P0001", "cleaning", sd, dur, "D1", "")
    \/ \E aid \in IdArgs, nd \in StartTimes : RescheduleAppointment(aid, nd)
    \/ \E aid \in IdArgs : CancelAppointment(aid, "")
    \/ \E aid \in IdArgs, st \in {SCHEDULED, CANCELLED, NO_SHOW} :
          UpdateAppointmentStatus(aid, st)

NextLifecycle == ncalls < MaxLifecycleCalls /\ LifecycleCall

SpecLifecycle == Init /\ [][NextLifecycle]_vars

\* the service on a file system that can fail, restarted at any time
NextIO ==
    \/ ncalls < MaxIOCalls /\ ServiceCall
    \/ FsChange
    \/ Restart
    \/ Tick

SpecIO == Init /\ [][NextIO]_vars

\* starts near the present, so that the clock can reach and pass them
QueryStarts == {1, 2, 3}

\* the look-ahead of get_upcoming_appointments, in hours (24 is the default)
QueryHours == {1, 24}

\* appointments are booked and change status, and the two time queries are asked
QueryCall ==
    \/ \E pid \in PatientIds, atype \in AppointmentTypes, sd \in QueryStarts,
          dent \in DentistIds \ {None} :
          CreateAppointment(pid, atype, sd, 1, dent, "")
    \/ \E aid \in IdArgs, st \in AppointmentStatus : UpdateAppointmentStatus(aid, st)
    \/ \E hours \in QueryHours : UpcomingAppointments(hours)
    \/ OverdueAppointments

\* the clock advances between calls, past the starts
Advance ==
    /\ now < MaxQueryNow
    /\ now' = now + 1
    /\ UNCHANGED <<appointments, disk, fs, ncalls, last, calls, aux>>

NextQuery ==
    \/ ncalls < MaxQueryCalls /\ QueryCall
    \/ Advance

SpecQuery == Init /\ [][NextQuery]_vars

-----------------------------------------------------------------------------
(* services/patient_service.py, models/patient.py *)

FirstNames == {"Ann", "Bob"}

\* f"P{n:04d}"
FormatPatientId(n) == "P" \o ZeroPad(Decimal(n), 4)

\* Patient.__init__
NewPatient(pid, first_name, t) ==
    [patient_id |-> pid, first_name |-> first_name, last_name |-> "Doe",
     email |-> "doe@example.com", phone |-> "555-0100",
     date_of_birth |-> "1990-01-01", insurance_provider |-> None,
     insurance_id |-> None, created_at |-> t, updated_at |-> t,
     medical_history |-> << >>, appointments |-> << >>, treatments |-> << >>,
     notes |-> << >>]

\* Patient.to_dict
PatientToDict(p) ==
    [p EXCEPT !.created_at = IsoFormat(@), !.updated_at = IsoFormat(@)]

\* PatientService._save_patients: the content of the data file afterwards
SavePatients(store) ==
    IF fs = "ok" THEN [pid \in DOMAIN store |-> PatientToDict(store[pid])]
    ELSE IF fs = "write_fails" THEN << >>
    ELSE patient_file

\* PatientService.create_patient
CreatePatient(first_name) ==
    LET patient_id == FormatPatientId(Cardinality(DOMAIN patients) + 1)
    IN /\ patients' = Put(patients, patient_id, NewPatient(patient_id, first_name, now))
       /\ patient_file' = SavePatients(patients')
       /\ last' = Saved(Call("create_patient", patient_id, 0, 0, None, None,
                             patient_id))
       /\ ncalls' = ncalls + 1
       /\ UNCHANGED <<appointments, disk, now, fs, calls, response, heard,
                   query, listener, notifications,
                   notification_file, invoices, invoice_file>>

\* PatientService.delete_patient
DeletePatient(patient_id) ==
    /\ IF patient_id \in DOMAIN patients
       THEN /\ patients' = [pid \in DOMAIN patients \ {patient_id} |-> patients[pid]]
            /\ patient_file' = SavePatients(patients')
            /\ last' = Saved(Call("delete_patient", patient_id, 0, 0, None, None, TRUE))
       ELSE /\ last' = Call("delete_patient", patient_id, 0, 0, None, None, FALSE)
            /\ UNCHANGED <<patients, patient_file>>
    /\ ncalls' = ncalls + 1
    /\ UNCHANGED <<appointments, disk, now, fs, calls, response, heard,
                   query, listener, notifications,
                   notification_file, invoices, invoice_file>>

\* one call of the patient service
PatientCall ==
    \/ \E first_name \in FirstNames : CreatePatient(first_name)
    \/ \E pid \in DOMAIN patients \cup {"P9999"} : DeletePatient(pid)

NextPatients ==
    \/ ncalls < MaxPatientCalls /\ PatientCall
    \/ Tick

SpecPatients == Init /\ [][NextPatients]_vars

-----------------------------------------------------------------------------
(* utils/voice_processor.py: the regular expressions of the re module, on     *)
(* strings of characters.  A pattern is a tree; Ends gives the positions at   *)
(* which a match starting at position i can end, in the order in which the    *)
(* backtracking matcher tries them (alternatives left to right, repetitions   *)
(* greedy), so that the head of the list is the match re reports.             *)

UpperCase == "ABCDEFGHIJKLMNOPQRSTUVWXYZ"
LowerCase == "abcdefghijklmnopqrstuvwxyz"
DigitChars == "0123456789"

\* \s
Whitespace == " \t\n\r\f"

\* \w
WordChars == LowerCase \o UpperCase \o DigitChars \o "_"

\* the character at position i of a string, as a string of length one
Char(t, i) == SubSeq(t, i, i)

\* c in chars
InChars(c, chars) == \E k \in 1 .. Len(chars) : Char(chars, k) = c

\* the constructors of the patterns
Lit(str) == <<"lit", str>>
Alt(rs) == <<"alt", rs>>
Cat(rs) == <<"cat", rs>>
Opt(r) == <<"opt", r>>
OneOf(chars) == <<"rep", chars, 1, 1>>
Rep(chars, min, max) == <<"rep", chars, min, max>>
Plus(chars) == <<"plus", chars>>

\* (w1|w2|...)
Words(ws) == Alt([k \in DOMAIN ws |-> Lit(ws[k])])

\* \s+ and \w+
Spaces == Plus(Whitespace)
Word == Plus(WordChars)

\* the phrase w1\s+w2\s+... of groups
Phrase(rs) ==
    Cat([k \in 1 .. (2 * Len(rs) - 1) |->
            IF k % 2 = 1 THEN rs[(k + 1) \div 2] ELSE Spaces])

\* the number of characters of `chars` in a row from position i, at most `max`
RECURSIVE Run(_, _, _, _)
Run(t, i, chars, max) ==
    IF max = 0 \/ i > Len(t) \/ ~InChars(Char(t, i), chars) THEN 0
    ELSE 1 + Run(t, i + 1, chars, max - 1)

\* the concatenation of a list of lists
RECURSIVE Flatten(_)
Flatten(ss) == IF ss = << >> THEN << >> ELSE Head(ss) \o Flatten(Tail(ss))

RECURSIVE Ends(_, _, _)
Ends(r, t, i) ==
    CASE r[1] = "lit" ->
            IF i + Len(r[2]) - 1 <= Len(t) /\ SubSeq(t, i, i + Len(r[2]) - 1) = r[2]
            THEN <<i + Len(r[2])>> ELSE << >>
      [] r[1] = "rep" ->
            LET n == Run(t, i, r[2], r[4])
            IN IF n < r[3] THEN << >>
               ELSE [k \in 1 .. (n - r[3] + 1) |-> i + n - k + 1]
      [] r[1] = "plus" ->
            LET n == Run(t, i, r[2], Len(t))
            IN [k \in 1 .. n |-> i + n - k + 1]
      [] r[1] = "opt" -> Ends(r[2], t, i) \o <<i>>
      [] r[1] = "alt" -> Flatten([k \in DOMAIN r[2] |-> Ends(r[2][k], t, i)])
      [] r[1] = "cat" ->
            IF r[2] = << >> THEN <<i>>
            ELSE LET first == Ends(Head(r[2]), t, i)
                 IN Flatten([k \in DOMAIN first |-> Ends(Cat(Tail(r[2])), t, first[k])])

\* re.search(pattern, text) is not None
Search(r, t) == \E i \in 1 .. (Len(t) + 1) : Ends(r, t, i) # << >>

\* re.search(pattern, text).group(0): the leftmost match
Group0(r, t) ==
    LET i == CHOOSE i \in 1 .. (Len(t) + 1) :
                 /\ Ends(r, t, i) # << >>
                 /\ \A j \in 1 .. (i - 1) : Ends(r, t, j) = << >>
    IN SubSeq(t, i, Head(Ends(r, t, i)) - 1)

\* `word in text`
Contains(t, word) == Search(Lit(word), t)

\* str.lower
LowerChar(c) ==
    IF InChars(c, UpperCase)
    THEN Char(LowerCase, CHOOSE k \in 1 .. Len(UpperCase) : Char(UpperCase, k) = c)
    ELSE c

RECURSIVE LowerFrom(_, _)
LowerFrom(t, i) == IF i > Len(t) THEN "" ELSE LowerChar(Char(t, i)) \o LowerFrom(t, i + 1)

Lower(t) == LowerFrom(t, 1)

\* str.strip
Strip(t) ==
    LET kept == {i \in 1 .. Len(t) : ~InChars(Char(t, i), Whitespace)}
    IN IF kept = {} THEN ""
       ELSE SubSeq(t, CHOOSE i \in kept : \A j \in kept : i <= j,
                      CHOOSE i \in kept : \A j \in kept : i >= j)

\* the keys of self.intent_patterns with emergency moved to the front
IntentOrderEmergencyFirst ==
    <<"emergency", "schedule_appointment", "check_availability",
      "insurance_inquiry", "service_inquiry", "office_hours">>

\* the keys of self.intent_patterns, in the order of the dict
IntentOrder ==
    <<"schedule_appointment", "check_availability", "insurance_inquiry",
      "service_inquiry", "office_hours", "emergency">>

\* self.intent_patterns[intent]
IntentPatterns(intent) ==
    CASE intent = "schedule_appointment" ->
           <<Cat(<<Words(<<"schedule", "book", "make">>), Spaces,
                   Opt(Cat(<<Lit("a"), Opt(Lit("n")), Spaces>>)),
                   Lit("appointment")>>),
             Cat(<<Words(<<"want", "need">>), Spaces,
                   Opt(Cat(<<Lit("to"), Spaces>>)),
                   Words(<<"schedule", "book">>), Spaces,
                   Opt(Cat(<<Lit("a"), Opt(Lit("n")), Spaces>>)),
                   Lit("appointment")>>),
             Phrase(<<Lit("appointment"), Words(<<"for", "on">>), Word>>),
             Phrase(<<Words(<<"when", "what">>), Words(<<"time", "day">>),
                      Words(<<"are", "do">>), Words(<<"you", "they">>),
                      Words(<<"have", "available">>)>>)>>
      [] intent = "check_availability" ->
           <<Phrase(<<Words(<<"available", "open", "free">>),
                      Words(<<"time", "slot", "appointment">>)>>),
             Phrase(<<Words(<<"what", "when">>), Words(<<"are", "do">>),
                      Words(<<"you", "they">>), Words(<<"have", "available">>)>>),
             Phrase(<<Words(<<"next", "upcoming">>), Words(<<"available", "open">>),
                      Words(<<"time", "slot">>)>>)>>
      [] intent = "insurance_inquiry" ->
           <<Phrase(<<Alt(<<Lit("accept"), Lit("take"),
                            Phrase(<<Lit("work"), Lit("with")>>)>>),
                      Words(<<"insurance", "coverage">>)>>),
             Phrase(<<Words(<<"what", "which">>), Words(<<"insurance", "provider">>),
                      Alt(<<Phrase(<<Lit("do"), Lit("you")>>),
                            Phrase(<<Lit("are"), Lit("accepted")>>)>>)>>),
             Phrase(<<Words(<<"my", "the">>), Words(<<"insurance", "provider">>),
                      Words(<<"is", "are">>)>>),
             Phrase(<<Words(<<"coverage", "benefits">>), Words(<<"for", "of">>)>>)>>
      [] intent = "service_inquiry" ->
           <<Phrase(<<Words(<<"what", "which">>), Words(<<"services", "treatments">>),
                      Alt(<<Phrase(<<Lit("do"), Lit("you")>>),
                            Phrase(<<Lit("are"), Lit("offered")>>)>>)>>),
             Phrase(<<Alt(<<Lit("cost"), Lit("price"),
                            Phrase(<<Lit("how"), Lit("much")>>)>>),
                      Words(<<"for", "is">>), Word>>),
             Phrase(<<Words(<<"cleaning", "filling", "whitening", "checkup">>),
                      Words(<<"cost", "price">>)>>)>>
      [] intent = "office_hours" ->
           <<Phrase(<<Words(<<"what", "when">>), Words(<<"are", "do">>),
                      Words(<<"you", "they">>), Words(<<"open", "close">>)>>),
             Cat(<<Words(<<"hours", "schedule">>), Spaces,
                   Opt(Phrase(<<Lit("of"), Lit("operation")>>))>>),
             Phrase(<<Words(<<"open", "closed">>), Words(<<"on", "during">>)>>)>>
      [] intent = "emergency" ->
           <<Words(<<"emergency", "urgent", "pain", "hurt">>),
             Phrase(<<Words(<<"broken", "cracked", "chipped">>),
                      Words(<<"tooth", "teeth">>)>>),
             Phrase(<<Words(<<"severe", "bad", "terrible">>),
                      Words(<<"pain", "ache">>)>>)>>

\* date_patterns of extract_entities
DatePatterns ==
    <<Alt(<<Lit("today"), Lit("tomorrow"), Phrase(<<Lit("next"), Word>>)>>),
      Cat(<<Rep(DigitChars, 1, 2), OneOf("/-"), Rep(DigitChars, 1, 2), OneOf("/-"),
            Rep(DigitChars, 2, 4)>>),
      Words(<<"monday", "tuesday", "wednesday", "thursday", "friday", "saturday",
              "sunday">>),
      Words(<<"morning", "afternoon", "evening", "night">>)>>

\* self.dental_keywords['services']
ServiceKeywords == <<"cleaning", "filling", "whitening", "checkup", "emergency">>

\* insurance_providers of extract_entities
InsuranceProviders ==
    <<"delta dental", "aetna", "cigna", "blue cross", "metlife", "unitedhealthcare">>

\* a list of urgency words without 'severe'
UrgencyWordsWithoutSevere == <<"bad", "terrible", "excruciating", "unbearable">>

\* urgency_words of extract_entities
UrgencyWords == <<"severe", "bad", "terrible", "excruciating", "unbearable">>

\* the positions of a list whose element satisfies the loop's test
DateHits(t) == {k \in DOMAIN DatePatterns : Search(DatePatterns[k], t)}
WordHits(t, ws) == {k \in DOMAIN ws : Contains(t, ws[k])}

\* the greatest element of a set of numbers: a loop that is never left early
Latest(hits) == CHOOSE k \in hits : \A j \in hits : k >= j

\* the least element of a set of numbers: where a loop with `break` stops
First(hits) == CHOOSE k \in hits : \A j \in hits : k <= j

\* the entry a `for ... if ...: entities[key] = ...; break` loop leaves
FirstWord(key, t, ws) ==
    IF WordHits(t, ws) = {} THEN << >>
    ELSE [k \in {key} |-> ws[First(WordHits(t, ws))]]

\* VoiceProcessor.extract_entities
ExtractEntities(t, intent) ==
    [k \in {"original_text"} |-> t] @@
    CASE intent = "schedule_appointment" ->
           (IF DateHits(t) = {} THEN << >>
            ELSE [k \in {"preferred_time"} |->
                     Group0(DatePatterns[First(DateHits(t))], t)])
           @@ FirstWord("service_type", t, ServiceKeywords)
      [] intent = "insurance_inquiry" ->
           FirstWord("insurance_provider", t, InsuranceProviders)
      [] intent = "service_inquiry" ->
           FirstWord("service_type", t, ServiceKeywords)
      [] intent = "emergency" ->
           [k \in {"urgency_level"} |->
               IF WordHits(t, UrgencyWords) # {} THEN "high" ELSE "medium"]
      [] OTHER -> << >>

\* a normalisation that lowers the case and keeps the surrounding blanks
NormalizeLowerOnly(text) == Lower(text)

\* text.lower().strip()
Normalize(text) == Strip(Lower(text))

\* the intents of which some pattern matches, by their position in the dict
IntentHits(t) ==
    {k \in DOMAIN IntentOrder :
        \E n \in DOMAIN IntentPatterns(IntentOrder[k]) :
            Search(IntentPatterns(IntentOrder[k])[n], t)}

\* VoiceProcessor.extract_intent: the two nested loops return at the first
\* pattern that matches
ExtractIntent(text) ==
    LET t == Normalize(text)
        hits == IntentHits(t)
    IN IF hits # {}
       THEN [intent |-> IntentOrder[First(hits)],
             entities |-> ExtractEntities(t, IntentOrder[First(hits)])]
       ELSE [intent |-> "general_inquiry", entities |-> [k \in {"query"} |-> t]]

\* what callers say
Phrases ==
    {"I want to schedule an appointment", "Book appointment for tomorrow",
     "i want to schedule a cleaning appointment", "when are you available",
     "next open slot", "Do you accept insurance", "how much is whitening",
     "when do you close", "office hours", "my tooth hurts", "  URGENT  ",
     "Hello there ", "severe pain", "monday morning", "on 1/5/24"}

\* what is no sentence at all
Noise == {"", "12345", "!@#$%^&*()", "   "}

\* n phrases said in a row
RECURSIVE Said(_)
Said(n) == IF n = 1 THEN Phrases
           ELSE {a \o " " \o b : a \in Said(n - 1), b \in Phrases}

\* the utterances the tests give to extract_intent, under the intent the test
\* expects for them
TestQueries ==
    [schedule_appointment |->
        {"I want to schedule an appointment", "Can I book an appointment",
         "I need to make an appointment", "Schedule appointment for tomorrow",
         "I want to schedule a cleaning appointment for tomorrow morning",
         "I want to schedule a cleaning appointment"},
     insurance_inquiry |->
        {"Do you accept insurance", "What insurance providers do you work with",
         "My insurance is Delta Dental", "Insurance coverage for cleaning",
         "I have Delta Dental insurance"},
     service_inquiry |->
        {"How much does a cleaning cost", "What services do you offer",
         "Price for teeth whitening", "Cost of filling",
         "How much does teeth whitening cost"},
     office_hours |->
        {"What are your hours", "When are you open", "Office hours",
         "Are you open on weekends"},
     emergency |->
        {"I have an emergency", "Severe tooth pain", "Broken tooth",
         "Urgent dental care", "I have severe tooth pain"}]

Utterances ==
    Noise \cup UNION {TestQueries[k] : k \in DOMAIN TestQueries}
          \cup UNION {Said(n) : n \in 1 .. MaxPhrases}

\* an utterance arrives at a processor that has processed nothing yet
InitVoice ==
    /\ appointments = << >>
    /\ disk = << >>
    /\ now = 0
    /\ fs = "ok"
    /\ ncalls = 0
    /\ last = Call("init", None, 0, 0, None, None, None)
    /\ calls = [c \in Callers |-> Idle]
    /\ response = NoResponse
    /\ patients = << >>
    /\ patient_file = << >>
    /\ \E text \in Utterances : heard = [NotHeard EXCEPT !.text = text]
    /\ query = NoQuery
    /\ listener = NotListening
    /\ notifications = << >>
    /\ notification_file = << >>
    /\ invoices = << >>
    /\ invoice_file = << >>

\* a call of VoiceProcessor.extract_intent on the utterance
HearIntent ==
    /\ heard.intent = None
    /\ heard' = [text |-> heard.text,
                 intent |-> ExtractIntent(heard.text).intent,
                 entities |-> ExtractIntent(heard.text).entities]
    /\ UNCHANGED <<appointments, disk, now, fs, ncalls, last, calls, response,
                   patients, patient_file,
                   query, listener, notifications,
                   notification_file, invoices, invoice_file>>

NextVoice == HearIntent

SpecVoice == InitVoice /\ [][NextVoice]_vars

-----------------------------------------------------------------------------
(* VoiceProcessor.process_voice_query: the text given or, without one, what    *)
(* listen_for_speech returns; then extract_intent and generate_response.       *)

\* generate_response and the seven _generate_*_response methods it dispatches to
GenerateResponse(intent, entities) ==
    LET get(key, default) == IF key \in DOMAIN entities THEN entities[key] ELSE default
        any(words, t) == \E k \in DOMAIN words : Contains(t, words[k])
        service_type == get("service_type", "")
        preferred_time == get("preferred_time", "")
        provider == get("insurance_provider", "")
        query_text == get("query", "")
    IN CASE intent = "schedule_appointment" ->
              "I'd be happy to help you schedule a "
                 \o get("service_type", "appointment") \o " appointment."
                 \o (IF preferred_time # ""
                     THEN " You mentioned " \o preferred_time \o ". " ELSE "")
                 \o "Let me check our available slots. What's your preferred date and time?"
         [] intent = "check_availability" ->
              "I can check our available appointment slots for you. What date are you looking for?"
         [] intent = "insurance_inquiry" ->
              IF provider # ""
              THEN "Yes, we do accept " \o provider
                      \o " insurance. Would you like me to check your specific coverage?"
              ELSE "We accept most major insurance providers including Delta Dental, Aetna, Cigna, Blue Cross Blue Shield, MetLife, and UnitedHealthcare. Which provider do you have?"
         [] intent = "service_inquiry" ->
              IF service_type # ""
              THEN "For " \o service_type
                      \o ", our prices typically range from $100 to $500 depending on the specific treatment needed. Would you like me to schedule a consultation to get a more accurate estimate?"
              ELSE "We offer a wide range of dental services including cleanings, fillings, root canals, teeth whitening, and emergency care. Which service are you interested in?"
         [] intent = "office_hours" ->
              "Our office hours are Monday through Friday 8 AM to 6 PM, Saturday 9 AM to 3 PM, and we're closed on Sundays. We also offer emergency appointments outside of regular hours."
         [] intent = "emergency" ->
              IF get("urgency_level", "medium") = "high"
              THEN "I understand this is an emergency. Please call our emergency line at (555) 123-4567 immediately, or if it's after hours, call (555) 999-8888 for urgent dental care."
              ELSE "I can help you schedule an emergency appointment. How soon do you need to be seen?"
         [] OTHER ->
              IF any(<<"appointment", "schedule", "book", "reschedule", "cancel">>, query_text)
              THEN "I can help you with appointment scheduling. Would you like to book an appointment?"
              ELSE IF any(<<"insurance", "coverage", "provider", "policy">>, query_text)
              THEN "I can help you with insurance questions. What would you like to know about your coverage?"
              ELSE "I'm here to help with your dental care needs. How can I assist you today?"

\* a process_voice_query that reports the normalized text as original_text
ProcessVoiceQueryNormalized(text, speech) ==
    LET said == IF text \in {None, ""} THEN speech ELSE text
    IN IF said \in {None, ""}
       THEN [success |-> FALSE, error |-> "No speech detected",
             response |-> "I didn't catch that. Could you please repeat?"]
       ELSE LET extracted == ExtractIntent(said)
            IN [success |-> TRUE,
                original_text |-> Normalize(said),
                intent |-> extracted.intent,
                entities |-> extracted.entities,
                response |-> GenerateResponse(extracted.intent, extracted.entities)]

\* process_voice_query(text) when listen_for_speech would return `speech`;
\* `not text` holds of None and of the empty string
ProcessVoiceQuery(text, speech) ==
    LET said == IF text \in {None, ""} THEN speech ELSE text
    IN IF said \in {None, ""}
       THEN [success |-> FALSE, error |-> "No speech detected",
             response |-> "I didn't catch that. Could you please repeat?"]
       ELSE LET extracted == ExtractIntent(said)
            IN [success |-> TRUE,
                original_text |-> said,
                intent |-> extracted.intent,
                entities |-> extracted.entities,
                response |-> GenerateResponse(extracted.intent, extracted.entities)]

\* listen_for_speech: None after a timeout or a recognition error, otherwise the
\* recognized text in lower case
Recognized ==
    {None, ""} \cup {Lower(q) : q \in UNION {TestQueries[k] : k \in DOMAIN TestQueries}}

\* a query arrives: with a text, or without one and the microphone is consulted
InitQuery ==
    /\ appointments = << >>
    /\ disk = << >>
    /\ now = 0
    /\ fs = "ok"
    /\ ncalls = 0
    /\ last = Call("init", None, 0, 0, None, None, None)
    /\ calls = [c \in Callers |-> Idle]
    /\ response = NoResponse
    /\ patients = << >>
    /\ patient_file = << >>
    /\ heard = NotHeard
    /\ \/ \E text \in Utterances : query = [NoQuery EXCEPT !.text = text]
       \/ \E text \in {None, ""}, speech \in Recognized :
             query = [NoQuery EXCEPT !.text = text, !.speech = speech]
    /\ listener = NotListening
    /\ notifications = << >>
    /\ notification_file = << >>
    /\ invoices = << >>
    /\ invoice_file = << >>

\* a call of VoiceProcessor.process_voice_query
ProcessQuery ==
    /\ query.result = << >>
    /\ query' = [query EXCEPT !.result = ProcessVoiceQuery(query.text, query.speech)]
    /\ UNCHANGED <<appointments, disk, now, fs, ncalls, last, calls, response,
                   patients, patient_file, heard, listener, notifications,
                   notification_file, invoices, invoice_file>>

NextProcess == ProcessQuery

SpecProcess == InitQuery /\ [][NextProcess]_vars

-----------------------------------------------------------------------------
(* Continuous listening: the caller's thread runs start_continuous_listening   *)
(* and stop_continuous_listening, the daemon thread runs listen_loop.  Both    *)
(* read and write is_listening without a lock; a step of the model is one read *)
(* or write of it, or one call the loop makes.                                 *)

\* start_continuous_listening: is_listening = True, then the thread is started
\* and stands before the first test of its while loop
StartContinuousListening ==
    /\ listener.caller = "idle"
    /\ listener' = [listener EXCEPT !.is_listening = TRUE, !.caller = "listening",
                                    !.thread = "while"]
    /\ UNCHANGED <<appointments, disk, now, fs, ncalls, last, calls, response,
                   patients, patient_file, heard, query, notifications,
                   notification_file, invoices, invoice_file>>

\* stop_continuous_listening: is_listening = False, and it returns
StopContinuousListening ==
    /\ listener.caller = "listening"
    /\ listener' = [listener EXCEPT !.is_listening = FALSE, !.caller = "stopped"]
    /\ UNCHANGED <<appointments, disk, now, fs, ncalls, last, calls, response,
                   patients, patient_file, heard, query, notifications,
                   notification_file, invoices, invoice_file>>

\* one step of listen_loop: the test of the while, the call of
\* process_voice_query (which listens, as no text is passed), or the callback
ListenLoop ==
    /\ \/ /\ listener.thread = "while"
          /\ listener' = [listener EXCEPT
                             !.thread = IF listener.is_listening THEN "query" ELSE "exited"]
          /\ UNCHANGED query
       \/ /\ listener.thread = "query"
          /\ listener.queries < MaxListenQueries
          /\ \E speech \in {None, "what are your hours"} :
                /\ query' = [text |-> None, speech |-> speech,
                             result |-> ProcessVoiceQuery(None, speech)]
                /\ listener' = [listener EXCEPT
                                   !.queries = @ + 1,
                                   !.failed = @ \/ ~query'.result.success,
                                   !.thread = IF query'.result.success
                                              THEN "callback" ELSE "while"]
       \/ /\ listener.thread = "callback"
          /\ listener' = [listener EXCEPT !.callbacks = @ + 1, !.thread = "while"]
          /\ UNCHANGED query
    /\ UNCHANGED <<appointments, disk, now, fs, ncalls, last, calls, response,
                   patients, patient_file, heard, notifications,
                   notification_file, invoices, invoice_file>>

NextListen ==
    \/ StartContinuousListening
    \/ StopContinuousListening
    \/ ListenLoop

SpecListen == Init /\ [][NextListen]_vars

-----------------------------------------------------------------------------
(* services/notification_service.py: notifications are created pending and a  *)
(* sweep, process_pending_notifications, sends those that are due.  An         *)
(* Optional[datetime] is a sequence of at most one point in time.              *)

\* _send_notification that gives up only after the limit was passed
SendNotificationPastLimit(n, success, t) ==
    LET counted == [n EXCEPT !.retry_count = @ + 1]
    IN [(IF success
         THEN [n EXCEPT !.status = "sent", !.sent_time = <<t>>]
         ELSE IF counted.retry_count > counted.max_retries
              THEN [counted EXCEPT !.status = "failed",
                                   !.error_message = "Max retries exceeded"]
              ELSE [counted EXCEPT !.status = "pending",
                                   !.scheduled_time = t + RetryDelayMinutes \div MinutesPerStep])
        EXCEPT !.updated_at = t]

\* _send_notification, lines 299-316: what it makes of the notification when the
\* channel reported `success`
SendNotification(n, success, t) ==
    LET counted == [n EXCEPT !.retry_count = @ + 1]
    IN [(IF success
         THEN [n EXCEPT !.status = "sent", !.sent_time = <<t>>]
         ELSE IF counted.retry_count >= counted.max_retries
              THEN [counted EXCEPT !.status = "failed",
                                   !.error_message = "Max retries exceeded"]
              ELSE [counted EXCEPT !.status = "pending",
                                   !.scheduled_time = t + RetryDelayMinutes \div MinutesPerStep])
        EXCEPT !.updated_at = t]

\* f"NOT{n:04d}"
FormatNotificationId(n) == "NOT" \o ZeroPad(Decimal(n), 4)

\* _save_notifications with Notification.to_dict (max_retries is not written):
\* the content of the data file afterwards
SaveNotifications(store) ==
    IF fs = "ok"
    THEN [nid \in DOMAIN store |->
             [notification_id |-> store[nid].notification_id,
              channel |-> store[nid].channel,
              scheduled_time |-> IsoFormat(store[nid].scheduled_time),
              sent_time |-> IF store[nid].sent_time = << >> THEN None
                            ELSE IsoFormat(store[nid].sent_time[1]),
              status |-> store[nid].status,
              updated_at |-> IsoFormat(store[nid].updated_at),
              retry_count |-> store[nid].retry_count,
              error_message |-> store[nid].error_message]]
    ELSE IF fs = "write_fails" THEN << >>
    ELSE notification_file

\* NotificationService.create_notification with Notification.__init__
CreateNotification(channel, scheduled_time) ==
    LET notification_id == FormatNotificationId(Cardinality(DOMAIN notifications) + 1)
    IN /\ notifications' = Put(notifications, notification_id,
              [notification_id |-> notification_id, channel |-> channel,
               scheduled_time |-> scheduled_time, sent_time |-> << >>,
               status |-> "pending", updated_at |-> now, retry_count |-> 0,
               max_retries |-> MaxRetries, error_message |-> ""])
       /\ notification_file' = SaveNotifications(notifications')
       /\ ncalls' = ncalls + 1
       /\ UNCHANGED <<appointments, disk, now, fs, last, calls, response, patients,
                      patient_file, heard, query, listener, invoices, invoice_file>>

\* NotificationService.process_pending_notifications: one sweep.  The due
\* notifications are sent in the order of the dict, which is the order of their
\* ids; send_email and send_sms answer True or False (their exceptions are caught
\* inside them), any other channel is not sent at all.  When os.makedirs raises
\* in the save that ends the first _send_notification, the sweep ends there.
ProcessPendingNotifications ==
    LET due == {nid \in DOMAIN notifications :
                   /\ notifications[nid].status = "pending"
                   /\ notifications[nid].scheduled_time <= now}
        first == {nid \in due :
                     \A k \in 1 .. Cardinality(DOMAIN notifications) :
                         FormatNotificationId(k) \in due =>
                             \E j \in 1 .. k : nid = FormatNotificationId(j)}
        reached == IF fs = "makedirs_fails" THEN first ELSE due
    IN /\ \E answers \in [reached -> BOOLEAN] :
             notifications' =
                [nid \in DOMAIN notifications |->
                    IF nid \in reached
                    THEN SendNotification(notifications[nid],
                            /\ notifications[nid].channel \in {"email", "sms"}
                            /\ answers[nid],
                            now)
                    ELSE notifications[nid]]
       /\ notification_file' = IF reached = {} THEN notification_file
                               ELSE SaveNotifications(notifications')
       /\ ncalls' = ncalls + 1
       /\ UNCHANGED <<appointments, disk, now, fs, last, calls, response, patients,
                      patient_file, heard, query, listener, invoices, invoice_file>>

NextNotify ==
    \/ /\ ncalls < MaxNotifyCalls
       /\ Cardinality(DOMAIN notifications) < MaxNotifications
       /\ \E channel \in {"email", "voice"}, scheduled_time \in {0, 1} :
             CreateNotification(channel, scheduled_time)
    \/ ncalls < MaxNotifyCalls /\ ProcessPendingNotifications
    \/ Advance

SpecNotify == Init /\ [][NextNotify]_vars

-----------------------------------------------------------------------------
(* services/billing_service.py, models/billing.py: invoices, their items and  *)
(* payments.  Amounts are whole numbers; the prices are such that the 8% tax    *)
(* is a whole number too.                                                      *)

\* BillingService._save_billing_data with Invoice.to_dict: the content of the
\* data file afterwards
SaveBillingData(store) ==
    IF fs = "ok"
    THEN [iid \in DOMAIN store |->
             [store[iid] EXCEPT !.created_date = IsoFormat(@),
                                !.due_date = IsoFormat(@)]]
    ELSE IF fs = "write_fails" THEN << >>
    ELSE invoice_file

\* BillingService.create_invoice with Invoice.__init__
CreateInvoice(patient_id) ==
    LET invoice_id == "INV" \o ZeroPad(Decimal(Cardinality(DOMAIN invoices) + 1), 4)
    IN /\ invoices' = Put(invoices, invoice_id,
              [invoice_id |-> invoice_id, patient_id |-> patient_id,
               created_date |-> now, due_date |-> now + 30 * StepsPerDay,
               status |-> "draft", items |-> << >>, subtotal |-> 0,
               tax_amount |-> 0, total_amount |-> 0, paid_amount |-> 0,
               balance_due |-> 0])
       /\ invoice_file' = SaveBillingData(invoices')
       /\ last' = Saved(Call("create_invoice", invoice_id, 0, 0, None, None, invoice_id))
       /\ ncalls' = ncalls + 1
       /\ UNCHANGED <<appointments, disk, now, fs, calls, response, patients,
                      patient_file, heard, query, listener, notifications,
                      notification_file>>

\* BillingService.add_invoice_item with Invoice.add_item and _recalculate_totals
AddInvoiceItem(invoice_id, quantity, unit_price) ==
    /\ IF Found(invoices, invoice_id)
       THEN LET items == Append(invoices[invoice_id].items, quantity * unit_price)
                subtotal == invoices[invoice_id].subtotal + quantity * unit_price
                tax_amount == (subtotal * 8) \div 100
            IN /\ invoices' = [invoices EXCEPT ![invoice_id] =
                      [@ EXCEPT !.items = items, !.subtotal = subtotal,
                                !.tax_amount = tax_amount,
                                !.total_amount = subtotal + tax_amount,
                                !.balance_due = subtotal + tax_amount
                                                 - invoices[invoice_id].paid_amount]]
               /\ invoice_file' = SaveBillingData(invoices')
               /\ last' = Saved(Call("add_invoice_item", invoice_id, 0, 0, None, None,
                                     TRUE))
       ELSE /\ last' = Call("add_invoice_item", invoice_id, 0, 0, None, None, FALSE)
            /\ UNCHANGED <<invoices, invoice_file>>
    /\ ncalls' = ncalls + 1
    /\ UNCHANGED <<appointments, disk, now, fs, calls, response, patients,
                   patient_file, heard, query, listener, notifications,
                   notification_file>>

\* BillingService.record_payment with Invoice.add_payment.  add_payment adds the
\* amount, recomputes the balance and then sets the status: InvoiceStatus.PAID
\* when nothing is due, InvoiceStatus.PARTIAL when less than the total is due.
\* InvoiceStatus has no member PARTIAL (PaymentStatus has), so that assignment
\* raises AttributeError: the amounts are changed, the status is not, and
\* record_payment is left before its save and its return.
RecordPayment(invoice_id, amount) ==
    /\ IF Found(invoices, invoice_id)
       THEN LET paid_amount == invoices[invoice_id].paid_amount + amount
                balance_due == invoices[invoice_id].total_amount - paid_amount
                partial == /\ balance_due > 0
                           /\ balance_due < invoices[invoice_id].total_amount
            IN /\ invoices' = [invoices EXCEPT ![invoice_id] =
                      [@ EXCEPT !.paid_amount = paid_amount,
                                !.balance_due = balance_due,
                                !.status = IF balance_due <= 0 THEN "paid" ELSE @]]
               /\ invoice_file' = IF partial THEN invoice_file
                                  ELSE SaveBillingData(invoices')
               /\ last' = (IF partial
                           THEN [Call("record_payment", invoice_id, 0, 0, None, None,
                                      None) EXCEPT !.raised = TRUE]
                           ELSE Saved(Call("record_payment", invoice_id, 0, 0, None,
                                           None, TRUE)))
                          @@ [amount |-> amount]
       ELSE /\ last' = Call("record_payment", invoice_id, 0, 0, None, None, FALSE)
                          @@ [amount |-> amount]
            /\ UNCHANGED <<invoices, invoice_file>>
    /\ ncalls' = ncalls + 1
    /\ UNCHANGED <<appointments, disk, now, fs, calls, response, patients,
                   patient_file, heard, query, listener, notifications,
                   notification_file>>

NextBilling ==
    /\ ncalls < MaxBillingCalls
    /\ \/ CreateInvoice("P0001")
       \/ \E invoice_id \in DOMAIN invoices \cup {"INV9999"}, quantity \in {1, 2},
             unit_price \in {25, 50} :
             AddInvoiceItem(invoice_id, quantity, unit_price)
       \/ \E invoice_id \in DOMAIN invoices \cup {"INV9999"}, amount \in {27, 54, 100} :
             RecordPayment(invoice_id, amount)

SpecBilling == Init /\ [][NextBilling]_vars

-----------------------------------------------------------------------------
(* api/appointment_api.py: each handler with the service calls it makes.  An  *)
(* exception of a service call (the save that cannot create its directory) is *)
(* caught by the handler's `except Exception` and answered 500.               *)

\* a scheduled_date string that datetime.fromisoformat rejects
InvalidDate == 0 - 1

\* a status string that is no value of AppointmentStatus
InvalidStatus == "bogus"

\* the record of the service calls of one request: whether they saved, and whether
\* the save raised
Handled(method, aid, saved) ==
    [Call(method, aid, 0, 0, None, None, None) EXCEPT
        !.save = IF saved THEN fs ELSE "none",
        !.raised = saved /\ fs = "makedirs_fails"]

\* GET /api/appointments/<appointment_id>
HttpGet(aid) ==
    /\ response' = Response("GET", aid, << >>,
                            IF ~Found(appointments, aid) THEN 404 ELSE 200)
    /\ last' = Handled("GET", aid, FALSE)
    /\ ncalls' = ncalls + 1
    /\ UNCHANGED <<appointments, disk, now, fs, calls, patients, patient_file, heard,
                   query, listener, notifications,
                   notification_file, invoices, invoice_file>>

\* POST /api/appointments/ : `valid` says whether the required fields are there and
\* the appointment type and the date parse
HttpPost(body) ==
    LET rejected == HasConflict(appointments, body.scheduled_date,
                                body.duration_minutes, body.dentist_id)
        created == body.valid /\ ~rejected
        appointment_id == FormatId(Cardinality(DOMAIN appointments) + 1)
        code == IF ~body.valid THEN 400
                ELSE IF rejected THEN 409
                ELSE IF fs = "makedirs_fails" THEN 500
                ELSE 201
    IN /\ appointments' =
             IF created
             THEN Put(appointments, appointment_id,
                      NewAppointment(appointment_id, body.patient_id,
                                     body.appointment_type, body.scheduled_date,
                                     body.duration_minutes, body.dentist_id, "", now))
             ELSE appointments
       /\ disk' = IF created THEN SaveAppointments(appointments') ELSE disk
       /\ response' = Response("POST", None, body, code)
       /\ last' = Handled("POST", None, created)
       /\ ncalls' = ncalls + 1
       /\ UNCHANGED <<now, fs, calls, patients, patient_file, heard,
                   query, listener, notifications,
                   notification_file, invoices, invoice_file>>

\* PUT /api/appointments/<appointment_id> : the body may carry a status, a
\* scheduled_date and other keys
HttpPut(aid, body) ==
    LET empty == ~body.has_status /\ ~body.has_date /\ ~body.other
        bad_status == body.has_status /\ body.status \notin AppointmentStatus
        status_done == /\ ~empty /\ body.has_status /\ ~bad_status
                       /\ Found(appointments, aid)
        updated == IF status_done
                   THEN [appointments EXCEPT
                            ![aid] = UpdateStatus(@, body.status, now)]
                   ELSE appointments
        status_raised == status_done /\ fs = "makedirs_fails"
        at_date == /\ ~empty /\ ~bad_status /\ ~status_raised
                   /\ body.has_status => Found(appointments, aid)
        bad_date == body.has_date /\ body.scheduled_date = InvalidDate
        moved == /\ at_date /\ body.has_date /\ ~bad_date
                 /\ Found(updated, aid)
                 /\ ~HasConflict(updated, body.scheduled_date,
                                 updated[aid].duration_minutes,
                                 updated[aid].dentist_id)
        rescheduled == IF moved
                       THEN [updated EXCEPT
                                ![aid] = MoveTo(@, body.scheduled_date, now)]
                       ELSE updated
        code == IF empty THEN 400
                ELSE IF bad_status THEN 400
                ELSE IF body.has_status /\ ~Found(appointments, aid) THEN 404
                ELSE IF status_raised THEN 500
                ELSE IF bad_date THEN 400
                ELSE IF body.has_date /\ ~moved THEN 409
                ELSE IF moved /\ fs = "makedirs_fails" THEN 500
                ELSE IF ~Found(rescheduled, aid) THEN 500
                ELSE 200
    IN /\ appointments' = rescheduled
       /\ disk' = IF status_done \/ moved THEN SaveAppointments(appointments')
                  ELSE disk
       /\ response' = Response("PUT", aid, body, code)
       /\ last' = Handled("PUT", aid, status_done \/ moved)
       /\ ncalls' = ncalls + 1
       /\ UNCHANGED <<now, fs, calls, patients, patient_file, heard,
                   query, listener, notifications,
                   notification_file, invoices, invoice_file>>

\* DELETE /api/appointments/<appointment_id>
HttpDelete(aid, reason) ==
    LET success == Found(appointments, aid) /\ CanBeCancelled(appointments[aid], now)
        code == IF ~success THEN 404
                ELSE IF fs = "makedirs_fails" THEN 500
                ELSE 200
    IN /\ appointments' =
             IF success
             THEN [appointments EXCEPT
                      ![aid] = [UpdateStatus(@, CANCELLED, now) EXCEPT
                                   !.notes = @ \o CancelNote(reason)]]
             ELSE appointments
       /\ disk' = IF success THEN SaveAppointments(appointments') ELSE disk
       /\ response' = Response("DELETE", aid, [reason |-> reason], code)
       /\ last' = Handled("DELETE", aid, success)
       /\ ncalls' = ncalls + 1
       /\ UNCHANGED <<now, fs, calls, patients, patient_file, heard,
                   query, listener, notifications,
                   notification_file, invoices, invoice_file>>

\* POST /api/appointments/<appointment_id>/treatment-notes : `valid` says whether
\* the body carries a note and a dentist_id
HttpTreatmentNote(aid, body) ==
    LET success == body.valid /\ Found(appointments, aid)
        code == IF ~body.valid THEN 400
                ELSE IF ~success THEN 404
                ELSE IF fs = "makedirs_fails" THEN 500
                ELSE 200
    IN /\ appointments' =
             IF success
             THEN [appointments EXCEPT
                      ![aid] = AddNote(@, body.note, body.dentist_id, now)]
             ELSE appointments
       /\ disk' = IF success THEN SaveAppointments(appointments') ELSE disk
       /\ response' = Response("POST treatment-notes", aid, body, code)
       /\ last' = Handled("POST treatment-notes", aid, success)
       /\ ncalls' = ncalls + 1
       /\ UNCHANGED <<now, fs, calls, patients, patient_file, heard,
                   query, listener, notifications,
                   notification_file, invoices, invoice_file>>

\* the bodies of the requests
PostBodies ==
    [valid : BOOLEAN, patient_id : PatientIds, appointment_type : AppointmentTypes,
     scheduled_date : StartTimes, duration_minutes : {DefaultDuration},
     dentist_id : {None, "D1"}]

PutBodies ==
    [has_status : BOOLEAN, status : {CONFIRMED, InvalidStatus},
     has_date : BOOLEAN, scheduled_date : {InvalidDate, 47, 49}, other : BOOLEAN]

NoteBodies == [valid : BOOLEAN, note : NoteTexts, dentist_id : {"D1"}]

\* one request to the appointment endpoints
HttpRequest ==
    \/ \E aid \in IdArgs : HttpGet(aid)
    \/ \E body \in PostBodies : HttpPost(body)
    \/ \E aid \in IdArgs, body \in PutBodies : HttpPut(aid, body)
    \/ \E aid \in IdArgs, reason \in Reasons : HttpDelete(aid, reason)
    \/ \E aid \in IdArgs, body \in NoteBodies : HttpTreatmentNote(aid, body)

NextHttp == ncalls < MaxHttpCalls /\ HttpRequest

SpecHttp == Init /\ [][NextHttp]_vars

-----------------------------------------------------------------------------

\* a practice day and the day after it, in working hours: 10:00, 10:30 and 16:00
\* of the first, 10:00 of the second
SlotStarts == {AtHour(StepsPerDay, 10), AtHour(StepsPerDay, 10) + 1,
               AtHour(StepsPerDay, 16), AtHour(2 * StepsPerDay, 10)}

\* the dates asked for: some time of the first day, midnight of the second
SlotDates == {AtHour(StepsPerDay, 11), 2 * StepsPerDay}

\* appointments are booked in working hours, some are cancelled or confirmed, and
\* the free slots of a day are asked for
SlotCall ==
    \/ \E pid \in PatientIds, atype \in AppointmentTypes, sd \in SlotStarts,
          dur \in Durations, dent \in DentistIds :
          CreateAppointment(pid, atype, sd, dur, dent, "")
    \/ \E aid \in IdArgs, st \in {CONFIRMED, CANCELLED} :
          UpdateAppointmentStatus(aid, st)
    \/ \E date \in SlotDates, dur \in Durations, dent \in DentistIds :
          AvailableSlots(date, dur, dent)

NextSlots == ncalls < MaxSlotCalls /\ SlotCall

SpecSlots == Init /\ [][NextSlots]_vars


-----------------------------------------------------------------------------
(* create_appointment as two request threads of the HTTP server run it, one  *)
(* call each: the conflict scan, the id assignment, the insertion and the    *)
(* save are separate statements and nothing locks the store between them.    *)

\* line 61: the conflict scan; a conflict returns None at once
CreateScan(c, pid, atype, sd, dur, dent, notes) ==
    /\ calls[c].pc = "idle"
    /\ calls' = [calls EXCEPT ![c] =
           [Idle EXCEPT !.pc = IF HasConflict(appointments, sd, dur, dent)
                               THEN "done" ELSE "assign",
                        !.patient_id = pid, !.appointment_type = atype,
                        !.scheduled_date = sd, !.duration_minutes = dur,
                        !.dentist_id = dent, !.notes = notes]]
    /\ ncalls' = ncalls + 1
    /\ UNCHANGED <<appointments, disk, now, fs, last, aux>>

\* lines 64-73: the id is computed from the size of the store, the object is built
CreateAssignId(c) ==
    /\ calls[c].pc = "assign"
    /\ calls' = [calls EXCEPT ![c] =
           [@ EXCEPT !.pc = "insert",
                     !.appointment_id = FormatId(Cardinality(DOMAIN appointments) + 1),
                     !.created_at = now]]
    /\ UNCHANGED <<appointments, disk, now, fs, ncalls, last, aux>>

\* line 75: self.appointments[appointment_id] = appointment
CreateInsert(c) ==
    /\ calls[c].pc = "insert"
    /\ appointments' = Put(appointments, calls[c].appointment_id,
                           NewAppointment(calls[c].appointment_id, calls[c].patient_id,
                                          calls[c].appointment_type,
                                          calls[c].scheduled_date,
                                          calls[c].duration_minutes,
                                          calls[c].dentist_id, calls[c].notes,
                                          calls[c].created_at))
    /\ calls' = [calls EXCEPT ![c] = [@ EXCEPT !.pc = "save"]]
    /\ UNCHANGED <<disk, now, fs, ncalls, last, aux>>

\* lines 76-77: the store is saved and the appointment returned
CreateReturn(c) ==
    /\ calls[c].pc = "save"
    /\ disk' = SaveAppointments(appointments)
    /\ calls' = [calls EXCEPT ![c] =
           [@ EXCEPT !.pc = "done", !.result = calls[c].appointment_id]]
    /\ UNCHANGED <<appointments, now, fs, ncalls, last, aux>>

NextConc ==
    \/ \E c \in Callers, pid \in PatientIds, atype \in AppointmentTypes,
          sd \in StartTimes, dur \in Durations, dent \in DentistIds :
          CreateScan(c, pid, atype, sd, dur, dent, "")
    \/ \E c \in Callers : CreateAssignId(c)
    \/ \E c \in Callers : CreateInsert(c)
    \/ \E c \in Callers : CreateReturn(c)
    \/ Tick

SpecConc == Init /\ [][NextConc]_vars

-----------------------------------------------------------------------------
(* Properties *)

\* the half-open intervals [s1, s1+d1) and [s2, s2+d2) share a point in time
Overlap(s1, d1, s2, d2) ==
    \E t \in s1 .. (s1 + d1 - 1) : s2 <= t /\ t < s2 + d2

\* two dentist references fall on one calendar: the same dentist, or one is absent
SameCalendar(d1, d2) == d1 = d2 \/ ~Truthy(d1) \/ ~Truthy(d2)

Active(a) == a.status \notin {CANCELLED, NO_SHOW}

\* the conflict rule of the data model, for a request against a store
Conflicts(store, sd, dur, dent) ==
    \E aid \in DOMAIN store :
        /\ Active(store[aid])
        /\ SameCalendar(dent, store[aid].dentist_id)
        /\ Overlap(sd, dur, store[aid].scheduled_date, store[aid].duration_minutes)

\* the store without one appointment
Without(store, aid) == [k \in DOMAIN store \ {aid} |-> store[k]]

\* two stored appointments that are not cancelled, on one calendar, overlapping
DoubleBooked(store) ==
    \E i, j \in DOMAIN store :
        /\ i # j
        /\ store[i].status # CANCELLED /\ store[j].status # CANCELLED
        /\ SameCalendar(store[i].dentist_id, store[j].dentist_id)
        /\ Overlap(store[i].scheduled_date, store[i].duration_minutes,
                   store[j].scheduled_date, store[j].duration_minutes)

\* C1: from an empty store, after any sequence of sequential create_appointment and
\* reschedule_appointment calls, no two stored non-cancelled appointments that share
\* a dentist, or of which one has no dentist, overlap in [start, start+duration).
C1_NoDoubleBooking == ~DoubleBooked(appointments)

\* C1 witness: a reschedule succeeded while another appointment on the same
\* calendar is stored
C1_Witness ==
    /\ last.op = "reschedule" /\ last.result = TRUE
    /\ \E j \in DOMAIN appointments :
          /\ j # last.id
          /\ SameCalendar(appointments[j].dentist_id, appointments[last.id].dentist_id)

\* C2: reschedule_appointment leaves the rescheduled appointment itself out of the
\* conflict scan: when the new interval of an active appointment overlaps no other
\* active appointment but overlaps its own current interval, the call returns True
\* and the start is updated.
C2_RescheduleExcludesSelf ==
    (/\ last.op = "reschedule"
     /\ Found(appointments, last.id)
     /\ Active(appointments[last.id])
     /\ last.scheduled_date # appointments[last.id].scheduled_date
     /\ ~Conflicts(Without(appointments, last.id), last.scheduled_date,
                   appointments[last.id].duration_minutes,
                   appointments[last.id].dentist_id)
     /\ Overlap(last.scheduled_date, appointments[last.id].duration_minutes,
                appointments[last.id].scheduled_date,
                appointments[last.id].duration_minutes))
    => /\ last.result = TRUE
       /\ appointments[last.id].scheduled_date = last.scheduled_date

\* C3: cancel_appointment returns True, and sets the status to cancelled, if and only
\* if the id exists and the start is more than 24 hours after the time of the call;
\* when it returns False no appointment is changed.
C3_CancelGuard ==
    /\ [](last.op = "cancel" =>
            /\ last.result = TRUE <=>
                  /\ Found(appointments, last.id)
                  /\ appointments[last.id].scheduled_date - last.at > CancelWindow
            /\ last.result = TRUE => appointments[last.id].status = CANCELLED)
    /\ [][(last'.op = "cancel" /\ ncalls' # ncalls /\ last'.result = FALSE)
             => appointments' = appointments]_vars

\* C3 witness: a cancel exactly 24 hours before the start was rejected
C3_Witness ==
    /\ last.op = "cancel" /\ last.result = FALSE /\ now = last.at
    /\ Found(appointments, last.id)
    /\ appointments[last.id].scheduled_date = last.at + CancelWindow

\* C4: create_appointment returns None exactly when the request conflicts with a
\* stored appointment that is neither cancelled nor no_show, and then the store is
\* unchanged; an accepted call adds exactly one appointment, with status scheduled,
\* and leaves every other appointment unchanged.
C4_CreateRejectsOnConflict ==
    [][(last'.op = "create" /\ ncalls' # ncalls) =>
         /\ last'.result = None <=>
               Conflicts(appointments, last'.scheduled_date, last'.duration_minutes,
                         last'.dentist_id)
         /\ last'.result = None => appointments' = appointments
         /\ last'.result # None =>
               /\ last'.result \notin DOMAIN appointments
               /\ DOMAIN appointments' = DOMAIN appointments \cup {last'.result}
               /\ appointments'[last'.result].status = SCHEDULED
               /\ appointments'[last'.result].scheduled_date = last'.scheduled_date
               /\ \A aid \in DOMAIN appointments :
                     appointments'[aid] = appointments[aid]]_vars

\* C4 witness: a create was accepted on a slot that a cancelled or no_show
\* appointment overlaps
C4_Witness ==
    /\ last.op = "create" /\ last.result # None
    /\ \E aid \in DOMAIN appointments :
          /\ aid # last.result
          /\ ~Active(appointments[aid])
          /\ SameCalendar(appointments[aid].dentist_id, last.dentist_id)
          /\ Overlap(last.scheduled_date, last.duration_minutes,
                     appointments[aid].scheduled_date,
                     appointments[aid].duration_minutes)

\* C5: the conflict check is true iff some stored appointment that is neither
\* cancelled nor no_show overlaps the requested half-open interval and it is not the
\* case that both carry a dentist id and the ids differ: back-to-back appointments
\* do not conflict, and a missing dentist on either side blocks every dentist.
C5_ConflictRule ==
    \A sd \in StartTimes, dur \in Durations, dent \in DentistIds :
        HasConflict(appointments, sd, dur, dent) <=>
            \E aid \in DOMAIN appointments :
                /\ appointments[aid].status # CANCELLED
                /\ appointments[aid].status # NO_SHOW
                /\ Overlap(sd, dur, appointments[aid].scheduled_date,
                           appointments[aid].duration_minutes)
                /\ \/ dent = None
                   \/ appointments[aid].dentist_id = None
                   \/ appointments[aid].dentist_id = dent

\* C5 witness: a create for dentist D1 was rejected because of an appointment
\* without a dentist, while the slot right after that appointment is free
C5_Witness ==
    /\ last.op = "create" /\ last.result = None /\ last.dentist_id = "D1"
    /\ \E aid \in DOMAIN appointments :
          /\ appointments[aid].dentist_id = None
          /\ DOMAIN appointments = {aid}
          /\ Active(appointments[aid])
          /\ ~HasConflict(appointments, GetEndTime(appointments[aid]), 1, "D1")

\* the position of a status on the path scheduled -> confirmed -> in_progress ->
\* completed
Rank(st) == CASE st = SCHEDULED -> 1 [] st = CONFIRMED -> 2
              [] st = IN_PROGRESS -> 3 [] st = COMPLETED -> 4 [] OTHER -> 0

\* a status change the lifecycle allows, read generously: forward on the path, or
\* an exit to cancelled / no_show from a status that is not terminal
LegalTransition(old, new) ==
    \/ Rank(old) > 0 /\ Rank(new) > Rank(old)
    \/ /\ old \in {SCHEDULED, CONFIRMED, IN_PROGRESS}
       /\ new \in {CANCELLED, NO_SHOW}

\* C6: the status of an appointment changes only along scheduled -> confirmed ->
\* in_progress -> completed, or to cancelled / no_show from a non-terminal status;
\* a completed, cancelled or no_show appointment never changes status again.
C6_StatusLifecycle ==
    [][\A aid \in DOMAIN appointments :
          (aid \in DOMAIN appointments'
             /\ appointments'[aid].status # appointments[aid].status)
          => LegalTransition(appointments[aid].status, appointments'[aid].status)]_vars

\* the accepted create_appointment calls in flight or returned
Accepted(c) == calls[c].pc = "done" /\ calls[c].result # None

\* C7: when two create_appointment calls for overlapping intervals interleave, both
\* can return an appointment and leave two active conflicting appointments in the
\* store: whenever both calls have returned appointments under different ids, each
\* is stored as requested with status scheduled, whether or not the two conflict.
C7_BothCreatesStored ==
    \A c, d \in Callers :
        (c # d /\ Accepted(c) /\ Accepted(d) /\ calls[c].result # calls[d].result)
        => /\ Found(appointments, calls[c].result)
           /\ appointments[calls[c].result].status = SCHEDULED
           /\ appointments[calls[c].result].scheduled_date = calls[c].scheduled_date
           /\ appointments[calls[c].result].duration_minutes
                 = calls[c].duration_minutes
           /\ appointments[calls[c].result].dentist_id = calls[c].dentist_id

\* C7 witness: both calls returned an appointment and the store holds two active
\* appointments of one calendar that overlap
C7_Witness ==
    /\ \A c \in Callers : Accepted(c)
    /\ \E i, j \in DOMAIN appointments :
          /\ i # j
          /\ {i, j} = {calls[c].result : c \in Callers}
          /\ Active(appointments[i]) /\ Active(appointments[j])
          /\ SameCalendar(appointments[i].dentist_id, appointments[j].dentist_id)
          /\ Overlap(appointments[i].scheduled_date, appointments[i].duration_minutes,
                     appointments[j].scheduled_date, appointments[j].duration_minutes)

\* C8: reschedule_appointment returns False and changes nothing when the id is
\* missing or the new interval conflicts; when it returns True only scheduled_date
\* and updated_at of that appointment change.
C8_RescheduleFrame ==
    [][(last'.op = "reschedule" /\ ncalls' # ncalls) =>
         /\ (\/ ~Found(appointments, last'.id)
             \/ Conflicts(appointments, last'.scheduled_date,
                          appointments[last'.id].duration_minutes,
                          appointments[last'.id].dentist_id))
            => last'.result = FALSE
         /\ last'.result = FALSE => appointments' = appointments
         /\ last'.result = TRUE =>
               /\ DOMAIN appointments' = DOMAIN appointments
               /\ \A aid \in DOMAIN appointments \ {last'.id} :
                     appointments'[aid] = appointments[aid]
               /\ appointments'[last'.id] =
                     [appointments[last'.id] EXCEPT
                         !.scheduled_date = last'.scheduled_date,
                         !.updated_at = appointments'[last'.id].updated_at]]_vars

\* C8 witness: an appointment that is not in status scheduled was moved at a time
\* later than its last update
C8_Witness ==
    /\ last.op = "reschedule" /\ last.result = TRUE
    /\ appointments[last.id].status # SCHEDULED
    /\ appointments[last.id].updated_at > appointments[last.id].created_at

\* the id of the k-th accepted create
ExpectedId(k) ==
    <<"A0001", "A0002", "A0003", "A0004", "A0005", "A0006", "A0007", "A0008",
      "A0009">>[k]

\* C9: from an empty store the k-th accepted create_appointment receives the id A
\* followed by k padded to four digits: the stored ids are pairwise distinct and
\* are those of 1..n, and every accepted create raises n by one and returns the
\* id of n.
C9_SequentialIds ==
    /\ [](/\ DOMAIN appointments =
               {ExpectedId(k) : k \in 1 .. Cardinality(DOMAIN appointments)}
          /\ \A aid \in DOMAIN appointments : appointments[aid].appointment_id = aid)
    /\ [][(last'.op = "create" /\ ncalls' # ncalls /\ last'.result # None) =>
             /\ Cardinality(DOMAIN appointments') = Cardinality(DOMAIN appointments) + 1
             /\ last'.result = ExpectedId(Cardinality(DOMAIN appointments'))]_vars

\* C9 witness: a third create was accepted
C9_Witness == last.op = "create" /\ last.result = "A0003"

\* C10: no scheduling operation removes an appointment: the set of stored ids never
\* shrinks, and an appointment that was cancelled is still found under its id, with
\* status cancelled.
C10_NeverRemoved ==
    [][/\ DOMAIN appointments \subseteq DOMAIN appointments'
       /\ (last'.op = "cancel" /\ ncalls' # ncalls /\ last'.result = TRUE)
          => /\ Found(appointments', last'.id)
             /\ appointments'[last'.id].status = CANCELLED]_vars

\* C10 witness: one of two stored appointments was cancelled
C10_Witness ==
    /\ last.op = "cancel" /\ last.result = TRUE
    /\ Found(appointments, last.id)
    /\ Cardinality(DOMAIN appointments) = 2

\* the elements of a list
Range(seq) == {seq[i] : i \in DOMAIN seq}

\* a list of points in time in strictly increasing order
StrictlyIncreasing(seq) == \A i, j \in DOMAIN seq : i < j => seq[i] < seq[j]

\* the candidate starts of a day: 09:00 + 30*k minutes, up to midnight
Candidates(date) ==
    {AtHour(date, 9) + k : k \in 0 .. (AtHour(date, 24) - AtHour(date, 9) - 1)}

\* no stored appointment starts on the day of `date`
EmptyDay(store, date) == \A aid \in DOMAIN store : Day(store[aid].scheduled_date) # Day(date)

\* C11 as stated: get_available_slots(date, 60) on a date with no stored appointments
\* returns exactly 16 slots, 30 minutes apart, the first at 09:00 and the last at
\* 16:00.
C11_SixteenSlots ==
    (/\ last.op = "available_slots"
     /\ last.duration_minutes = 2
     /\ EmptyDay(appointments, last.scheduled_date))
    => /\ Len(last.result) = 16
       /\ \A i \in 1 .. (Len(last.result) - 1) : last.result[i + 1] = last.result[i] + 1
       /\ last.result[1] = AtHour(last.scheduled_date, 9)
       /\ last.result[Len(last.result)] = AtHour(last.scheduled_date, 16)

\* C11, amended: get_available_slots(date, 60) on a date with no stored appointments
\* returns exactly 15 slots, 30 minutes apart, the first at 09:00 and the last at
\* 16:00.
C11_FifteenSlots ==
    (/\ last.op = "available_slots"
     /\ last.duration_minutes = 2
     /\ EmptyDay(appointments, last.scheduled_date))
    => /\ Len(last.result) = 15
       /\ \A i \in 1 .. (Len(last.result) - 1) : last.result[i + 1] = last.result[i] + 1
       /\ last.result[1] = AtHour(last.scheduled_date, 9)
       /\ last.result[Len(last.result)] = AtHour(last.scheduled_date, 16)

\* C11 witness: the 60-minute slots of a day without appointments were asked for
\* while another day holds an appointment
C11_Witness ==
    /\ last.op = "available_slots" /\ last.duration_minutes = 2
    /\ EmptyDay(appointments, last.scheduled_date)
    /\ DOMAIN appointments # {}

\* C12: get_available_slots(date, d, dentist) returns, in strictly increasing order,
\* exactly the candidates 09:00 + 30*k minutes of that date with candidate + d <=
\* 17:00 for which the conflict rule of create is false; after a 60-minute
\* appointment booked at 10:00 on an otherwise empty day, the 60-minute result for
\* its calendar omits exactly 09:30, 10:00 and 10:30.
C12_SlotsAreFreeCandidates ==
    last.op = "available_slots" =>
        /\ StrictlyIncreasing(last.result)
        /\ Range(last.result) =
              {c \in Candidates(last.scheduled_date) :
                  /\ c + last.duration_minutes <= AtHour(last.scheduled_date, 17)
                  /\ ~Conflicts(appointments, c, last.duration_minutes,
                                last.dentist_id)}
        /\ \A aid \in DOMAIN appointments :
              (/\ last.duration_minutes = 2
               /\ Active(appointments[aid])
               /\ appointments[aid].scheduled_date = AtHour(last.scheduled_date, 10)
               /\ appointments[aid].duration_minutes = 2
               /\ SameCalendar(appointments[aid].dentist_id, last.dentist_id)
               /\ EmptyDay(Without(appointments, aid), last.scheduled_date))
              => Range(last.result) =
                    {c \in Candidates(last.scheduled_date) :
                        c + 2 <= AtHour(last.scheduled_date, 17)}
                    \ {AtHour(last.scheduled_date, 10) - 1,
                        AtHour(last.scheduled_date, 10),
                        AtHour(last.scheduled_date, 10) + 1}

\* C12 witness: the 60-minute slots of a day were asked for whose only appointment
\* is a 60-minute one at 10:00 on the calendar asked for
C12_Witness ==
    /\ last.op = "available_slots" /\ last.duration_minutes = 2
    /\ \E aid \in DOMAIN appointments :
          /\ Active(appointments[aid])
          /\ appointments[aid].scheduled_date = AtHour(last.scheduled_date, 10)
          /\ appointments[aid].duration_minutes = 2
          /\ SameCalendar(appointments[aid].dentist_id, last.dentist_id)
          /\ EmptyDay(Without(appointments, aid), last.scheduled_date)
    /\ Len(last.result) = 12

\* C13: after every mutating scheduling operation whose save succeeds, the file
\* holds the whole in-memory store, and loading it into a fresh service reproduces
\* every appointment with identical id, status, scheduled / created / updated
\* timestamps, duration, dentist, notes, reminders_sent and treatment_notes.
C13_SaveLoadRoundTrip ==
    last.save = "ok" =>
        /\ DOMAIN disk = DOMAIN appointments
        /\ DOMAIN LoadAppointments(disk) = DOMAIN appointments
        /\ \A aid \in DOMAIN appointments :
              LET loaded == LoadAppointments(disk)[aid]
                  stored == appointments[aid]
              IN /\ loaded.appointment_id = aid
                 /\ stored.appointment_id = aid
                 /\ loaded.status = stored.status
                 /\ loaded.scheduled_date = stored.scheduled_date
                 /\ loaded.created_at = stored.created_at
                 /\ loaded.updated_at = stored.updated_at
                 /\ loaded.duration_minutes = stored.duration_minutes
                 /\ loaded.dentist_id = stored.dentist_id
                 /\ loaded.notes = stored.notes
                 /\ loaded.reminders_sent = stored.reminders_sent
                 /\ loaded.treatment_notes = stored.treatment_notes
                 /\ loaded = stored

\* C13 witness: the save of a cancel succeeded, the cancelled appointment starting
\* on a half hour and carrying the reason in its notes
C13_Witness ==
    /\ last.save = "ok" /\ last.op = "cancel"
    /\ appointments[last.id].status = CANCELLED
    /\ appointments[last.id].notes = "\nCancelled: moved"
    /\ appointments[last.id].scheduled_date % StepsPerHour = 1
    /\ disk[last.id].scheduled_date = <<1, 0, 30>>

\* C14: if the save step fails during create, reschedule, cancel,
\* update_appointment_status or add_treatment_note, no exception reaches the
\* caller, the operation still reports success, the in-memory mutation stays
\* applied and the persisted store keeps its previous content.
C14_SaveFailureSwallowed ==
    [][(ncalls' # ncalls /\ last'.save \notin {"none", "ok"}) =>
          /\ ~last'.raised
          /\ last'.result \notin {None, FALSE}
          /\ Found(appointments', last'.id)
          /\ disk' = disk]_vars

\* an appointment that still waits for its patient
Pending(a) == a.status = SCHEDULED \/ a.status = CONFIRMED

\* a list without repetitions
NoDuplicates(seq) == \A i, j \in DOMAIN seq : seq[i] = seq[j] => i = j

\* C15: get_upcoming_appointments(h) returns exactly the stored appointments whose
\* status is scheduled or confirmed and whose start t satisfies
\* now < t <= now + h hours: a start equal to now is left out, a start equal to
\* now + h is included.
C15_UpcomingWindow ==
    last.op = "upcoming" =>
        /\ NoDuplicates(last.result)
        /\ Range(last.result) =
              {aid \in DOMAIN appointments :
                  /\ Pending(appointments[aid])
                  /\ last.at < appointments[aid].scheduled_date
                  /\ appointments[aid].scheduled_date <= last.at + 2 * last.hours}
        /\ \A aid \in DOMAIN appointments :
              /\ appointments[aid].scheduled_date = last.at
                    => aid \notin Range(last.result)
              /\ (Pending(appointments[aid])
                    /\ last.hours > 0
                    /\ appointments[aid].scheduled_date = last.at + 2 * last.hours)
                    => aid \in Range(last.result)

\* C15 witness: the appointments of the next hour were asked for while one pending
\* appointment starts at the time of the call and another exactly an hour later
C15_Witness ==
    /\ last.op = "upcoming" /\ last.hours = 1
    /\ \E i, j \in DOMAIN appointments :
          /\ Pending(appointments[i]) /\ Pending(appointments[j])
          /\ appointments[i].scheduled_date = last.at
          /\ appointments[j].scheduled_date = last.at + 2
          /\ last.result = <<j>>

\* C16: get_overdue_appointments returns exactly the stored appointments whose
\* status is scheduled or confirmed and whose start is strictly before now, and
\* the call changes no appointment.
C16_OverdueReportedOnly ==
    /\ [](last.op = "overdue" =>
            /\ NoDuplicates(last.result)
            /\ Range(last.result) =
                  {aid \in DOMAIN appointments :
                      /\ Pending(appointments[aid])
                      /\ appointments[aid].scheduled_date < last.at})
    /\ [][(last'.op = "overdue" /\ ncalls' # ncalls) =>
             appointments' = appointments]_vars

\* C16 witness: the overdue appointments were asked for while one pending
\* appointment started before the call and another starts at the time of the call
C16_Witness ==
    /\ last.op = "overdue"
    /\ \E i, j \in DOMAIN appointments :
          /\ Pending(appointments[i]) /\ Pending(appointments[j])
          /\ appointments[i].scheduled_date < last.at
          /\ appointments[j].scheduled_date = last.at
          /\ last.result = <<i>>

\* C17: the appointment endpoints answer 404 if and only if the addressed id does
\* not exist (a request refused as malformed, with 400, set aside), and 409 only
\* when the create, or the reschedule of an existing appointment, was rejected for
\* a conflict: DELETE on an existing appointment inside the 24-hour window is not
\* answered 404, and PUT on a missing id is answered 404, not 409 or 500.
C17_StatusCodes ==
    [][ncalls' # ncalls =>
         /\ response'.method \in {"GET", "PUT", "DELETE", "POST treatment-notes"} =>
               /\ response'.code = 404 => ~Found(appointments, response'.id)
               /\ (~Found(appointments, response'.id) /\ response'.code # 400)
                     => response'.code = 404
         /\ response'.code = 409 =>
               \/ /\ response'.method = "POST"
                  /\ Conflicts(appointments, response'.body.scheduled_date,
                               response'.body.duration_minutes,
                               response'.body.dentist_id)
               \/ /\ response'.method = "PUT"
                  /\ Found(appointments, response'.id)
                  /\ Conflicts(appointments', response'.body.scheduled_date,
                               appointments'[response'.id].duration_minutes,
                               appointments'[response'.id].dentist_id)]_vars

\* the number a patient id was formatted from
PatientNumber(pid) == CHOOSE n \in 1 .. (MaxPatientCalls + 1) : FormatPatientId(n) = pid

\* C18: patient ids are monotonically increasing: across any sequence of
\* create_patient and delete_patient calls each newly created patient receives an
\* id greater than every id issued before, and hence greater than every stored
\* one: a create never reuses an id and never overwrites a stored patient.
C18_PatientIdsIncrease ==
    [][(last'.op = "create_patient" /\ ncalls' # ncalls) =>
         /\ last'.result \notin DOMAIN patients
         /\ \A pid \in DOMAIN patients :
               PatientNumber(last'.result) > PatientNumber(pid)
         /\ \A pid \in DOMAIN patients : patients'[pid] = patients[pid]]_vars

\* the order of the intents as the claim gives it
ClaimedOrder ==
    <<"schedule_appointment", "check_availability", "insurance_inquiry",
      "service_inquiry", "office_hours", "emergency">>

\* some pattern of the intent matches the text
IntentMatches(intent, t) ==
    \E n \in DOMAIN IntentPatterns(intent) : Search(IntentPatterns(intent)[n], t)

\* C19: extract_intent is first-match-wins over the order schedule_appointment,
\* check_availability, insurance_inquiry, service_inquiry, office_hours, emergency:
\* it returns the earliest intent in that order of which at least one pattern
\* matches the lowercased, trimmed text, however many later intents match too.
C19_FirstIntentWins ==
    heard.intent # None =>
        \A k \in DOMAIN ClaimedOrder :
            (/\ IntentMatches(ClaimedOrder[k], Strip(Lower(heard.text)))
             /\ \A j \in 1 .. (k - 1) :
                   ~IntentMatches(ClaimedOrder[j], Strip(Lower(heard.text))))
            => heard.intent = ClaimedOrder[k]

\* C19 witness: a text in which a schedule_appointment pattern and an emergency
\* pattern both match was classified as schedule_appointment
C19_Witness ==
    /\ heard.intent = "schedule_appointment"
    /\ IntentMatches("emergency", Strip(Lower(heard.text)))
    /\ IntentMatches("schedule_appointment", Strip(Lower(heard.text)))

\* C20: extract_intent returns general_inquiry if and only if no pattern of any
\* intent matches the normalized text, and then the entities are exactly
\* {query: normalized text}; the empty string, a digits-only string and a
\* punctuation-only string all yield general_inquiry.
C20_GeneralInquiryFallback ==
    heard.intent # None =>
        /\ heard.intent = "general_inquiry" <=>
              \A k \in DOMAIN ClaimedOrder :
                  ~IntentMatches(ClaimedOrder[k], Strip(Lower(heard.text)))
        /\ heard.intent = "general_inquiry" =>
              /\ DOMAIN heard.entities = {"query"}
              /\ heard.entities["query"] = Strip(Lower(heard.text))
        /\ heard.text \in {"", "12345", "!@#$%^&*()"} =>
              heard.intent = "general_inquiry"

\* C20 witness: a text that no pattern matches, written with a capital and a
\* trailing blank, was classified as general_inquiry
C20_Witness ==
    /\ heard.intent = "general_inquiry"
    /\ heard.text = "Hello there "
    /\ heard.entities["query"] = "hello there"

\* C21: extract_intent classifies every utterance that the tests list under an
\* intent as that intent: the scheduling requests as schedule_appointment, the
\* insurance questions as insurance_inquiry, the price and service questions as
\* service_inquiry, the hours questions as office_hours and the emergency
\* utterances as emergency.
C21_TestQueriesClassified ==
    heard.intent # None =>
        \A k \in DOMAIN TestQueries :
            heard.text \in TestQueries[k] => heard.intent = k

\* the substrings of t that pattern r matches at the leftmost position at which it
\* matches at all
LeftmostMatches(r, t) ==
    UNION {{SubSeq(t, i, Ends(r, t, i)[n] - 1) : n \in DOMAIN Ends(r, t, i)} :
              i \in {i \in 1 .. (Len(t) + 1) :
                        /\ Ends(r, t, i) # << >>
                        /\ \A j \in 1 .. (i - 1) : Ends(r, t, j) = << >>}}

\* C22: for intent schedule_appointment, preferred_time is the match of the
\* lowest-indexed date/time pattern (relative term, numeric date, weekday,
\* day-part) that matches anywhere in the text, wherever it occurs, and is absent
\* when none matches; service_type is the first keyword of the service list that
\* the text contains.  'I want to schedule a cleaning appointment for tomorrow
\* morning' gives preferred_time 'tomorrow' and service_type 'cleaning'.
C22_PreferredTimeByPatternOrder ==
    heard.intent = "schedule_appointment" =>
        LET t == Strip(Lower(heard.text))
            dates == {k \in 1 .. 4 : Search(DatePatterns[k], t)}
            services == {k \in 1 .. 5 : Contains(t, ServiceKeywords[k])}
        IN /\ "preferred_time" \in DOMAIN heard.entities <=> dates # {}
           /\ \A k \in dates :
                 (\A j \in dates : k <= j) =>
                    heard.entities["preferred_time"]
                       \in LeftmostMatches(DatePatterns[k], t)
           /\ "service_type" \in DOMAIN heard.entities <=> services # {}
           /\ \A k \in services :
                 (\A j \in services : k <= j) =>
                    heard.entities["service_type"] = ServiceKeywords[k]
           /\ heard.text = "I want to schedule a cleaning appointment for tomorrow morning"
                 => /\ heard.entities["preferred_time"] = "tomorrow"
                    /\ heard.entities["service_type"] = "cleaning"

\* C22 witness: a scheduling request in which a weekday and a day-part stand before
\* the relative term was given the relative term as preferred_time
C22_Witness ==
    /\ heard.intent = "schedule_appointment"
    /\ heard.text = "monday morning Book appointment for tomorrow"
    /\ heard.entities["preferred_time"] = "tomorrow"

\* C23: in the entities extract_entities builds, original_text is always present;
\* for intent emergency urgency_level is always present, 'high' iff the text
\* contains one of the severity words and 'medium' otherwise; for every other
\* intent the intent-specific entity (preferred_time, service_type,
\* insurance_provider) is present only when its scan matched.
C23_EntitiesByIntent ==
    heard.intent \notin {None, "general_inquiry"} =>
        LET t == Strip(Lower(heard.text))
            e == heard.entities
            has(key) == key \in DOMAIN e
            severe == \E w \in {"severe", "bad", "terrible", "excruciating",
                                "unbearable"} : Contains(t, w)
            service == \E k \in DOMAIN ServiceKeywords : Contains(t, ServiceKeywords[k])
            provider == \E k \in DOMAIN InsuranceProviders :
                           Contains(t, InsuranceProviders[k])
            dated == \E k \in DOMAIN DatePatterns : Search(DatePatterns[k], t)
        IN /\ has("original_text") /\ e["original_text"] = t
           /\ heard.intent = "emergency" =>
                 /\ DOMAIN e = {"original_text", "urgency_level"}
                 /\ e["urgency_level"] = IF severe THEN "high" ELSE "medium"
           /\ heard.intent # "emergency" => ~has("urgency_level")
           /\ has("preferred_time") =>
                 heard.intent = "schedule_appointment" /\ dated
           /\ has("service_type") =>
                 heard.intent \in {"schedule_appointment", "service_inquiry"} /\ service
           /\ has("insurance_provider") =>
                 heard.intent = "insurance_inquiry" /\ provider
           /\ DOMAIN e \subseteq {"original_text", "urgency_level", "preferred_time",
                                  "service_type", "insurance_provider"}

\* C23 witness: an emergency utterance with a severity word was given urgency
\* high, and nothing but that and the original text
C23_Witness ==
    /\ heard.intent = "emergency"
    /\ heard.text = "I have severe tooth pain"
    /\ heard.entities = [original_text |-> "i have severe tooth pain",
                         urgency_level |-> "high"]

\* C24: process_voice_query returns the failure result (success False, an
\* error, the fixed apology as response, no intent and no entities) exactly when
\* no text was given and listen_for_speech returned nothing; whenever a text is
\* available, given or recognized, the result has success True, original_text
\* equal to that text, and the intent, entities and response that extract_intent
\* and generate_response give for it.
C24_QueryResult ==
    query.result # << >> =>
        LET r == query.result
            nothing(x) == x \in {None, ""}
            said == IF nothing(query.text) THEN query.speech ELSE query.text
        IN /\ r.success = FALSE <=> nothing(query.text) /\ nothing(query.speech)
           /\ r.success = FALSE =>
                 /\ DOMAIN r = {"success", "error", "response"}
                 /\ r.error = "No speech detected"
                 /\ r.response = "I didn't catch that. Could you please repeat?"
           /\ r.success = TRUE =>
                 /\ DOMAIN r = {"success", "original_text", "intent", "entities",
                                "response"}
                 /\ r.original_text = said
                 /\ [intent |-> r.intent, entities |-> r.entities] = ExtractIntent(said)
                 /\ r.response = GenerateResponse(r.intent, r.entities)
           /\ query.text = "I want to schedule a cleaning appointment for tomorrow morning"
                 => r.response = "I'd be happy to help you schedule a cleaning appointment. You mentioned tomorrow. Let me check our available slots. What's your preferred date and time?"

\* C24 witness: no text was given, the microphone gave one, and the query
\* succeeded on the recognized text
C24_Witness ==
    /\ query.text = None
    /\ query.speech = "what are your hours"
    /\ query.result # << >>
    /\ query.result.success = TRUE
    /\ query.result.original_text = "what are your hours"
    /\ query.result.intent = "general_inquiry"

\* C25: when every process_voice_query of the loop succeeds, the callback has
\* been invoked at least once by the time stop_continuous_listening, called
\* after start_continuous_listening(callback), has returned.
C25_CallbackBeforeStopReturns ==
    (listener.caller = "stopped" /\ ~listener.failed) => listener.callbacks >= 1

\* C26: after any sequence of create_appointment, reschedule_appointment,
\* cancel_appointment and update_appointment_status calls made one after the
\* other, no two stored appointments whose status is neither cancelled nor
\* no_show conflict under the dentist rule; in particular a status update that
\* makes a cancelled or no_show appointment active again produces no overlap.
C26_NoActiveOverlap ==
    \A i, j \in DOMAIN appointments :
        (i # j /\ Active(appointments[i]) /\ Active(appointments[j])
               /\ SameCalendar(appointments[i].dentist_id, appointments[j].dentist_id))
        => ~Overlap(appointments[i].scheduled_date, appointments[i].duration_minutes,
                    appointments[j].scheduled_date, appointments[j].duration_minutes)

\* C27: under interleaved create_appointment calls every call that returns an
\* appointment leaves it stored under its own id: two accepted calls never
\* compute the same id, so no accepted appointment is overwritten or lost.
C27_AcceptedCreatesDistinct ==
    /\ \A c, d \in Callers :
          (c # d /\ Accepted(c) /\ Accepted(d)) => calls[c].result # calls[d].result
    /\ \A c \in Callers :
          Accepted(c) =>
             /\ Found(appointments, calls[c].result)
             /\ appointments[calls[c].result].scheduled_date = calls[c].scheduled_date
             /\ appointments[calls[c].result].duration_minutes
                   = calls[c].duration_minutes
             /\ appointments[calls[c].result].dentist_id = calls[c].dentist_id

\* C28: a PUT that carries both status and scheduled_date is all-or-nothing: when
\* its reschedule is rejected and the request answered 409, the appointment's
\* status, and with it the store and the file, are as before the request.
C28_PutAllOrNothing ==
    [][(/\ ncalls' # ncalls
        /\ response'.method = "PUT"
        /\ response'.code = 409
        /\ response'.body.has_status /\ response'.body.has_date)
       => /\ appointments'[response'.id].status = appointments[response'.id].status
          /\ appointments' = appointments
          /\ disk' = disk]_vars

\* C29: across the sweeps of process_pending_notifications a notification's
\* delivery is attempted at most max_retries (3) times: retry_count never exceeds
\* 3 and the status is failed exactly when the third attempt has failed; a failed
\* attempt below the limit leaves the notification pending and rescheduled 30
\* minutes later; a notification that is sent or failed is never attempted or
\* modified again.
C29_RetriesBounded ==
    /\ [](\A nid \in DOMAIN notifications :
            LET n == notifications[nid]
            IN /\ n.retry_count <= 3
               /\ n.retry_count + (IF n.status = "sent" THEN 1 ELSE 0) <= 3
               /\ n.status = "failed" <=> n.retry_count = 3
               /\ n.status \in {"pending", "sent", "failed"})
    /\ [][\A nid \in DOMAIN notifications :
            LET n == notifications[nid]
                m == notifications'[nid]
            IN /\ n.status \in {"sent", "failed"} => m = n
               /\ m # n => /\ n.status = "pending" /\ n.scheduled_time <= now
                           /\ \/ m.status = "sent" /\ m.retry_count = n.retry_count
                              \/ m.retry_count = n.retry_count + 1
               /\ (m.retry_count = n.retry_count + 1 /\ m.retry_count < 3)
                     => /\ m.status = "pending"
                        /\ (m.scheduled_time - now) * MinutesPerStep = 30
               /\ (m.retry_count = n.retry_count + 1 /\ m.retry_count = 3)
                     => m.status = "failed"]_vars

\* C29 witness: a notification failed at its third attempt, after two retries
\* half an hour apart, and a further call was made after that
C29_Witness ==
    \E nid \in DOMAIN notifications :
        /\ notifications[nid].status = "failed"
        /\ notifications[nid].retry_count = 3
        /\ notifications[nid].scheduled_time = 2
        /\ notifications[nid].updated_at = 2
        /\ now = 3
        /\ ncalls > 4

\* C30: record_payment on an existing invoice completes and returns True for
\* every positive amount, an amount smaller than the balance due included:
\* paid_amount grows by the amount, balance_due is total_amount - paid_amount,
\* the status is paid exactly when balance_due <= 0, and the invoice is saved.
C30_PaymentRecorded ==
    [][(/\ ncalls' # ncalls
        /\ last'.op = "record_payment"
        /\ Found(invoices, last'.id)
        /\ last'.amount > 0)
       => LET old == invoices[last'.id]
              new == invoices'[last'.id]
          IN /\ ~last'.raised
             /\ last'.result = TRUE
             /\ new.paid_amount = old.paid_amount + last'.amount
             /\ new.balance_due = new.total_amount - new.paid_amount
             /\ new.status = "paid" <=> new.balance_due <= 0
             /\ Found(invoice_file', last'.id)
             /\ invoice_file'[last'.id].paid_amount = new.paid_amount
             /\ invoice_file'[last'.id].status = new.status]_vars

====
